---- MODULE Spec2Model ----
(***************************************************************************)
(* The three ordered-set engines of BST-Benchmark (methods/avl_tree.py,    *)
(* methods/rb_tree.py, methods/treap_tree.py) over the shared Node record  *)
(* (methods/node.py) and the counters of BaseDataStructure                 *)
(* (methods/base.py).                                                      *)
(*                                                                         *)
(* Node objects live in an arena: a node is a cell number, a link is a     *)
(* cell number, and every field of Node is a function from cells to        *)
(* values.  Cell 0 is Python's None; the last cell is RBTree's sentinel    *)
(* self.nil, a Node whose fields are real and can be written.              *)
(* One state is one tree instance between two public calls; one action is  *)
(* one public call, run to completion.                                     *)
(***************************************************************************)
EXTENDS Integers, Sequences, FiniteSets, TLC

\* ------------------------------------------------------------------ bounds
\* Number of distinct keys the callers draw from.
NumKeys == 5
\* The keys are the decimal strings str(FirstKey), str(FirstKey + 1), ...
FirstKey == 8
\* The caller resets the metrics before the counters' sum reaches past this.
MaxRotations == 2
\* Treap(max_priority = MaxPriority): priorities are drawn from 0..MaxPriority.
MaxPriority == 1
\* Loop iterations one public call may take before the model calls it stuck.
MaxSteps == 12
\* Numbers the process-wide generator hands out before the model stops drawing.
MaxDraws == 3
\* Keys a scripted test inserts.
ScriptLen == 3
\* Node objects of a tree that a test has put together by hand, and the largest
\* height field it writes.
AnyNodes == 4
AnyHeight == 3
\* Distinct keys of the largest tree a constructor is given, and the calls made
\* on a tree built that way.
BuiltKeys == 12
BuiltCalls == 1

\* ------------------------------------------------------------------ keys
\* A key is a Python str, modelled as its sequence of characters (digits).
str(i) == IF i < 10 THEN <<i>> ELSE IF i < 100 THEN <<i \div 10, i % 10>> ELSE <<i \div 100, (i \div 10) % 10, i % 10>>

Keys == {str(i) : i \in FirstKey..(FirstKey + NumKeys - 1)}
\* The keys a constructor's list is made of: Keys and more.
AllKeys == {str(i) : i \in FirstKey..(FirstKey + BuiltKeys - 1)}
\* The keys given to the Treap: fewer, as each arrives with every priority.
TreapKeys == {str(i) : i \in FirstKey..(FirstKey + NumKeys - 3)}

\* Python's str.__lt__: lexicographic comparison, a proper prefix is smaller.
RECURSIVE StrLess(_, _)
StrLess(a, b) ==
    IF b = <<>> THEN FALSE
    ELSE IF a = <<>> THEN TRUE
    ELSE IF Head(a) # Head(b) THEN Head(a) < Head(b)
    ELSE StrLess(Tail(a), Tail(b))

\* ------------------------------------------------------------------ arena
None == 0
\* Cells that hold Node objects: one per key and one spare (RBTree.insert builds
\* its Node before it looks for a duplicate).
Nodes == 1..(BuiltKeys + 1)
\* Stands for a Node object that is no longer linked into the tree but is still
\* referenced (the sentinel's parent link can be left pointing at one).
Detached == BuiltKeys + 2
\* RBTree's sentinel self.nil, a Node object of its own.
nil == BuiltKeys + 3
Cells == 0..nil
\* Where a walk down the links ends.
Ends == {None, nil, Detached}

RED == "RED"
BLACK == "BLACK"
NoColor == "None"
NoValue == <<>>
NoPriority == -1

VARIABLES
    engine,            \* which class the instance is: "AVL", "RB" or "Treap"
    root,              \* self.root
    value, parent, left, right, height, color, priority,   \* Node fields, by cell
    rotations_insert, rotations_delete,                     \* BaseDataStructure counters
    present,           \* reference set: keys inserted and not deleted since
    lastOp,            \* the last public call: its name, whether its key was in `present`, its result
    drain,             \* where a fill-then-drain caller is: its phase and the keys it filled in
    random,            \* the process-wide generator of Python's random module
    probe              \* what an observer of the last call saw of the Node objects it touched

vars == <<engine, root, value, parent, left, right, height, color, priority,
          rotations_insert, rotations_delete, present, lastOp, drain, random, probe>>

\* The instance as one record, the form the methods below take and return.
\* ret is the value the method returns; guard records that a rotation primitive
\* took its early return (the promoted child was missing); steps counts the loop
\* iterations of the call and stuck records that a loop did not end within MaxSteps;
\* fixup records that RBTree._delete_fixup was called; rebalanced counts the nodes
\* at which AVLTree.insert and AVLTree.delete found the balance out of range;
\* trace lists, in order, what the call did: <<"left" or "right", pivot, promoted
\* node, the pivot's other child>> for a rotation, and for RBTree._delete_fixup <<"fixup", x, x.parent,
\* 1 if x.parent's child link or self.root names x else 0>> at its entry,
\* <<"iter", x, 0, 0>> for a pass of its loop, <<"sibling", w, 0, 0>> for a read of
\* the sibling and <<"case", 1..4, 0, 0>> for the case taken, and for
\* RBTree._insert_fixup <<"recolor", z, 0, 0>> for a pass that found the uncle RED;
\* draws counts the
\* calls of random.randint.
Self ==
    [root |-> root, value |-> value, parent |-> parent, left |-> left, right |-> right,
     height |-> height, color |-> color, priority |-> priority,
     rotations_insert |-> rotations_insert, rotations_delete |-> rotations_delete,
     ret |-> FALSE, guard |-> FALSE, steps |-> 0, stuck |-> FALSE,
     fixup |-> FALSE, rebalanced |-> 0, trace |-> <<>>, draws |-> 0]

Log(t, what, a, b, c) == [t EXCEPT !.trace = Append(@, <<what, a, b, c>>)]

Max(a, b) == IF a >= b THEN a ELSE b

\* The element of a one-element set. A call's result is bound once, as
\* The({g(r) : r \in {f(t)}}), for the statements g that follow the call f.
The(S) == CHOOSE r \in S : TRUE

\* Node.__init__(value, parent, color, priority) written into cell n.
NewNode(t, n, v, p, c, pr) ==
    [t EXCEPT !.value[n] = v, !.parent[n] = p, !.left[n] = None, !.right[n] = None,
              !.height[n] = 1, !.color[n] = c, !.priority[n] = pr]

\* The cells of the nodes linked under n (n included), to a depth no tree exceeds.
RECURSIVE Reach(_, _, _)
Reach(t, n, fuel) ==
    IF n \in Ends \/ fuel = 0 THEN {}
    ELSE {n} \cup Reach(t, t.left[n], fuel - 1) \cup Reach(t, t.right[n], fuel - 1)

Live(t) == Reach(t, t.root, NumKeys + 2)

\* The number a key is the decimal string of, and the key's place among Keys.
int(v) == IF Len(v) = 1 THEN v[1] ELSE IF Len(v) = 2 THEN 10 * v[1] + v[2] ELSE 100 * v[1] + 10 * v[2] + v[3]
KeyIndex(v) == int(v) - FirstKey + 1

\* A fresh Node object: any cell not in use will do, the choice cannot be observed.
\* The cell of the key's rank when it is free, else the lowest free cell.
Alloc(t, v) ==
    LET free == Nodes \ Live(t)
    IN IF KeyIndex(v) \in free THEN KeyIndex(v)
       ELSE CHOOSE n \in free : \A m \in free : n <= m

\* ------------------------------------------------------------------ AVLTree
AVL_get_height(t, node) == IF node # None THEN t.height[node] ELSE 0

AVL_update_height(t, node) ==
    IF node # None
    THEN [t EXCEPT !.height[node] =
            1 + Max(AVL_get_height(t, t.left[node]), AVL_get_height(t, t.right[node]))]
    ELSE t

AVL_get_balance(t, node) ==
    IF node = None THEN 0
    ELSE AVL_get_height(t, t.left[node]) - AVL_get_height(t, t.right[node])

\* Faulty variant of the counter update: the is_delete flag is ignored.
CountRotation_flag_ignored(t, is_delete) == [t EXCEPT !.rotations_insert = @ + 1]

\* Counter update shared by every rotation primitive.
CountRotation(t, is_delete) ==
    IF is_delete THEN [t EXCEPT !.rotations_delete = @ + 1]
    ELSE [t EXCEPT !.rotations_insert = @ + 1]

\* Faulty variant of _rotate_right: x is never connected to its new parent, so
\* self.root and the parent's child link still name y.
AVL_rotate_right_not_connected(t, y, is_delete) ==
    LET x == t.left[y] IN
    IF x = None THEN [t EXCEPT !.ret = y, !.guard = TRUE]
    ELSE
        LET T2 == t.right[x]
            t1 == [t EXCEPT !.right[x] = y, !.left[y] = T2]
            t2 == [t1 EXCEPT !.parent[x] = t1.parent[y], !.parent[y] = x]
            t3 == IF T2 # None THEN [t2 EXCEPT !.parent[T2] = y] ELSE t2
            t5 == AVL_update_height(AVL_update_height(t3, y), x)
        IN [CountRotation(t5, is_delete) EXCEPT !.ret = x]

\* Faulty variant of _rotate_right: the heights are recomputed top-down (x, the
\* new subtree root, before y, now its child).
AVL_rotate_right_heights_top_down(t, y, is_delete) ==
    LET x == t.left[y] IN
    IF x = None THEN [t EXCEPT !.ret = y, !.guard = TRUE]
    ELSE
        LET T2 == t.right[x]
            t1 == [t EXCEPT !.right[x] = y, !.left[y] = T2]
            t2 == [t1 EXCEPT !.parent[x] = t1.parent[y], !.parent[y] = x]
            t3 == IF T2 # None THEN [t2 EXCEPT !.parent[T2] = y] ELSE t2
            xp == t3.parent[x]
            t4 == IF xp = None THEN [t3 EXCEPT !.root = x]
                  ELSE IF t3.left[xp] = y THEN [t3 EXCEPT !.left[xp] = x]
                  ELSE [t3 EXCEPT !.right[xp] = x]
            t5 == AVL_update_height(AVL_update_height(t4, x), y)
        IN [CountRotation(t5, is_delete) EXCEPT !.ret = x]

\* Faulty variant of _rotate_right: the displaced subtree T2 keeps its old
\* parent link.
AVL_rotate_right_displaced_parent_stale(t, y, is_delete) ==
    LET x == t.left[y] IN
    IF x = None THEN [t EXCEPT !.ret = y, !.guard = TRUE]
    ELSE
        LET T2 == t.right[x]
            t1 == [t EXCEPT !.right[x] = y, !.left[y] = T2]
            t2 == [t1 EXCEPT !.parent[x] = t1.parent[y], !.parent[y] = x]
            xp == t2.parent[x]
            t4 == IF xp = None THEN [t2 EXCEPT !.root = x]
                  ELSE IF t2.left[xp] = y THEN [t2 EXCEPT !.left[xp] = x]
                  ELSE [t2 EXCEPT !.right[xp] = x]
            t5 == AVL_update_height(AVL_update_height(t4, y), x)
        IN [CountRotation(t5, is_delete) EXCEPT !.ret = x]

AVL_rotate_right(t, y, is_delete) ==
    LET x == t.left[y] IN
    IF x = None THEN [t EXCEPT !.ret = y, !.guard = TRUE]
    ELSE
        LET T2 == t.right[x]
            t1 == [t EXCEPT !.right[x] = y, !.left[y] = T2]
            t2 == [t1 EXCEPT !.parent[x] = t1.parent[y], !.parent[y] = x]
            t3 == IF T2 # None THEN [t2 EXCEPT !.parent[T2] = y] ELSE t2
            xp == t3.parent[x]
            t4 == IF xp = None THEN [t3 EXCEPT !.root = x]
                  ELSE IF t3.left[xp] = y THEN [t3 EXCEPT !.left[xp] = x]
                  ELSE [t3 EXCEPT !.right[xp] = x]
            t5 == AVL_update_height(AVL_update_height(t4, y), x)
        IN [Log(CountRotation(t5, is_delete), "right", y, x, t.right[y]) EXCEPT !.ret = x]

AVL_rotate_left(t, x, is_delete) ==
    LET y == t.right[x] IN
    IF y = None THEN [t EXCEPT !.ret = x, !.guard = TRUE]
    ELSE
        LET T2 == t.left[y]
            t1 == [t EXCEPT !.left[y] = x, !.right[x] = T2]
            t2 == [t1 EXCEPT !.parent[y] = t1.parent[x], !.parent[x] = y]
            t3 == IF T2 # None THEN [t2 EXCEPT !.parent[T2] = x] ELSE t2
            yp == t3.parent[y]
            t4 == IF yp = None THEN [t3 EXCEPT !.root = y]
                  ELSE IF t3.left[yp] = x THEN [t3 EXCEPT !.left[yp] = y]
                  ELSE [t3 EXCEPT !.right[yp] = y]
            t5 == AVL_update_height(AVL_update_height(t4, x), y)
        IN [Log(CountRotation(t5, is_delete), "left", x, y, t.left[x]) EXCEPT !.ret = y]

\* One more iteration of a loop (or one more recursive call) of the running method.
\* A method that has used MaxSteps of them is cut off and marked stuck.
Step(t) == [t EXCEPT !.steps = @ + 1]
Exhausted(t) == t.steps >= MaxSteps
Cut(t) == [t EXCEPT !.stuck = TRUE]

\* Faulty variant of insert's descent: an equal key is not recognised and the
\* descent goes on to the right.
RECURSIVE AVL_insert_descend_no_duplicate_test(_, _, _, _)
AVL_insert_descend_no_duplicate_test(t, cur, par, v) ==
    IF cur = None THEN [dup |-> FALSE, at |-> par]
    ELSE IF StrLess(v, t.value[cur]) THEN AVL_insert_descend_no_duplicate_test(t, t.left[cur], cur, v)
    ELSE AVL_insert_descend_no_duplicate_test(t, t.right[cur], cur, v)

\* insert's descent: ret is the node found with the key (a duplicate), or None with
\* `at` the last node visited.
RECURSIVE AVL_insert_descend(_, _, _, _)
AVL_insert_descend(t, cur, par, v) ==
    IF cur = None THEN [dup |-> FALSE, at |-> par]
    ELSE IF v = t.value[cur] THEN [dup |-> TRUE, at |-> cur]
    ELSE IF StrLess(v, t.value[cur]) THEN AVL_insert_descend(t, t.left[cur], cur, v)
    ELSE AVL_insert_descend(t, t.right[cur], cur, v)

\* Faulty variant of insert's walk: a balance of 1 or -1 is rebalanced too.
RECURSIVE AVL_insert_walk_strict_balance(_, _)
AVL_insert_walk_strict_balance(t, node) ==
    IF node = None THEN t
    ELSE IF Exhausted(t) THEN Cut(t)
    ELSE
        LET t1 == AVL_update_height(Step(t), node)
            balance == AVL_get_balance(t1, node)
            rebalanced ==
                IF balance > 0 THEN
                    The({AVL_rotate_right([t2 EXCEPT !.rebalanced = @ + 1], node, FALSE) :
                         t2 \in {IF AVL_get_balance(t1, t1.left[node]) < 0
                                 THEN AVL_rotate_left(t1, t1.left[node], FALSE)
                                 ELSE t1}})
                ELSE IF balance < 0 THEN
                    The({AVL_rotate_left([t2 EXCEPT !.rebalanced = @ + 1], node, FALSE) :
                         t2 \in {IF AVL_get_balance(t1, t1.right[node]) > 0
                                 THEN AVL_rotate_right(t1, t1.right[node], FALSE)
                                 ELSE t1}})
                ELSE [t1 EXCEPT !.ret = node]
        IN The({AVL_insert_walk_strict_balance(t3, t3.parent[t3.ret]) : t3 \in {rebalanced}})

\* insert's walk from the new node's parent to the root (`while node`).
RECURSIVE AVL_insert_walk(_, _)
AVL_insert_walk(t, node) ==
    IF node = None THEN t
    ELSE IF Exhausted(t) THEN Cut(t)
    ELSE
        LET t1 == AVL_update_height(Step(t), node)
            balance == AVL_get_balance(t1, node)
            rebalanced ==
                IF balance > 1 THEN
                    The({AVL_rotate_right([t2 EXCEPT !.rebalanced = @ + 1], node, FALSE) :
                         t2 \in {IF AVL_get_balance(t1, t1.left[node]) < 0
                                 THEN AVL_rotate_left(t1, t1.left[node], FALSE)
                                 ELSE t1}})
                ELSE IF balance < -1 THEN
                    The({AVL_rotate_left([t2 EXCEPT !.rebalanced = @ + 1], node, FALSE) :
                         t2 \in {IF AVL_get_balance(t1, t1.right[node]) > 0
                                 THEN AVL_rotate_right(t1, t1.right[node], FALSE)
                                 ELSE t1}})
                ELSE [t1 EXCEPT !.ret = node]
        IN The({AVL_insert_walk(t3, t3.parent[t3.ret]) : t3 \in {rebalanced}})

AVL_insert(t, v) ==
    IF t.root = None THEN
        LET n == Alloc(t, v)
        IN [NewNode(t, n, v, None, NoColor, NoPriority) EXCEPT !.root = n, !.ret = TRUE]
    ELSE
        LET d == AVL_insert_descend(t, t.root, None, v) IN
        IF d.dup THEN [t EXCEPT !.ret = FALSE]
        ELSE
            LET par == d.at
                new_node == Alloc(t, v)
                t1 == NewNode(t, new_node, v, par, NoColor, NoPriority)
                t2 == IF StrLess(v, t1.value[par]) THEN [t1 EXCEPT !.left[par] = new_node]
                      ELSE [t1 EXCEPT !.right[par] = new_node]
            IN [AVL_insert_walk(t2, t2.parent[new_node]) EXCEPT !.ret = TRUE]

RECURSIVE AVL_contains_from(_, _, _)
AVL_contains_from(t, cur, v) ==
    IF cur = None THEN FALSE
    ELSE IF v = t.value[cur] THEN TRUE
    ELSE IF StrLess(v, t.value[cur]) THEN AVL_contains_from(t, t.left[cur], v)
    ELSE AVL_contains_from(t, t.right[cur], v)

\* contains(value): the walk assigns nothing; ret is what it returns.
AVL_contains(t, v) == [t EXCEPT !.ret = AVL_contains_from(t, t.root, v)]

\* Faulty variant of the successor search: the right child itself is taken.
AVL_leftmost_no_descent(t, succ) == succ

\* The leftmost node under succ (the loop `while succ.left`).
RECURSIVE AVL_leftmost(_, _)
AVL_leftmost(t, succ) == IF t.left[succ] # None THEN AVL_leftmost(t, t.left[succ]) ELSE succ

\* Faulty variant of the tail of _delete_node: the height is recomputed but the
\* subtree is never rotated.
AVL_rebalance_no_rotation(t, node) == [AVL_update_height(t, node) EXCEPT !.ret = node]

Rebalancing(t) == [t EXCEPT !.rebalanced = @ + 1]

\* Faulty variant of the tail of _delete_node: once one node of the call has
\* been rebalanced, no other is.
AVL_rebalance_once_per_call(t, node) ==
    LET t1 == AVL_update_height(t, node)
        balance == AVL_get_balance(t1, node)
    IN IF t.rebalanced > 0 THEN [t1 EXCEPT !.ret = node]
       ELSE IF balance > 1 THEN
           The({AVL_rotate_right(t2, node, TRUE) :
                t2 \in {IF AVL_get_balance(t1, t1.left[node]) < 0
                        THEN AVL_rotate_left(Rebalancing(t1), t1.left[node], TRUE)
                        ELSE Rebalancing(t1)}})
       ELSE IF balance < -1 THEN
           The({AVL_rotate_left(t2, node, TRUE) :
                t2 \in {IF AVL_get_balance(t1, t1.right[node]) > 0
                        THEN AVL_rotate_right(Rebalancing(t1), t1.right[node], TRUE)
                        ELSE Rebalancing(t1)}})
       ELSE [t1 EXCEPT !.ret = node]

\* The tail of _delete_node: the node's height is recomputed and the subtree
\* rebalanced; ret is the subtree's new root.
AVL_rebalance(t, node) ==
    LET t1 == AVL_update_height(t, node)
        balance == AVL_get_balance(t1, node)
    IN IF balance > 1 THEN
           The({AVL_rotate_right(t2, node, TRUE) :
                t2 \in {IF AVL_get_balance(t1, t1.left[node]) < 0
                        THEN AVL_rotate_left(Rebalancing(t1), t1.left[node], TRUE)
                        ELSE Rebalancing(t1)}})
       ELSE IF balance < -1 THEN
           The({AVL_rotate_left(t2, node, TRUE) :
                t2 \in {IF AVL_get_balance(t1, t1.right[node]) > 0
                        THEN AVL_rotate_right(Rebalancing(t1), t1.right[node], TRUE)
                        ELSE Rebalancing(t1)}})
       ELSE [t1 EXCEPT !.ret = node]

\* Faulty variant of _delete_node: with two children the right subtree is asked
\* to delete the target's own key, not the successor's.
RECURSIVE AVL_delete_node_successor_left_in(_, _, _)
AVL_delete_node_successor_left_in(t0, node, v) ==
    LET t == Step(t0) IN
    IF node = None THEN [t EXCEPT !.ret = None]
    ELSE IF Exhausted(t0) THEN [Cut(t0) EXCEPT !.ret = node]
    ELSE IF StrLess(v, t.value[node]) THEN
        LET Linked(r) ==
                LET t1 == [r EXCEPT !.left[node] = r.ret]
                IN IF t1.left[node] # None THEN [t1 EXCEPT !.parent[t1.left[node]] = node] ELSE t1
        IN The({AVL_rebalance(t2, node) :
                t2 \in {Linked(r) : r \in {AVL_delete_node_successor_left_in(t, t.left[node], v)}}})
    ELSE IF StrLess(t.value[node], v) THEN
        LET Linked(r) ==
                LET t1 == [r EXCEPT !.right[node] = r.ret]
                IN IF t1.right[node] # None THEN [t1 EXCEPT !.parent[t1.right[node]] = node] ELSE t1
        IN The({AVL_rebalance(t2, node) :
                t2 \in {Linked(r) : r \in {AVL_delete_node_successor_left_in(t, t.right[node], v)}}})
    ELSE IF t.left[node] = None \/ t.right[node] = None THEN
        LET replacement == IF t.left[node] # None THEN t.left[node] ELSE t.right[node]
            t1 == IF replacement # None THEN [t EXCEPT !.parent[replacement] = t.parent[node]] ELSE t
        IN [t1 EXCEPT !.ret = replacement]
    ELSE
        LET succ == AVL_leftmost(t, t.right[node])
            t1 == [t EXCEPT !.value[node] = t.value[succ]]
            Linked(r) ==
                LET t2 == [r EXCEPT !.right[node] = r.ret]
                IN IF t2.right[node] # None THEN [t2 EXCEPT !.parent[t2.right[node]] = node] ELSE t2
        IN The({AVL_rebalance(t3, node) :
                t3 \in {Linked(r) : r \in {AVL_delete_node_successor_left_in(t1, t1.right[node], v)}}})

\* delete's helper _delete_node(node, value); ret is the new root of the subtree.
RECURSIVE AVL_delete_node(_, _, _)
AVL_delete_node(t0, node, v) ==
    LET t == Step(t0) IN
    IF node = None THEN [t EXCEPT !.ret = None]
    ELSE IF Exhausted(t0) THEN [Cut(t0) EXCEPT !.ret = node]
    ELSE IF StrLess(v, t.value[node]) THEN
        LET Linked(r) ==
                LET t1 == [r EXCEPT !.left[node] = r.ret]
                IN IF t1.left[node] # None THEN [t1 EXCEPT !.parent[t1.left[node]] = node] ELSE t1
        IN The({AVL_rebalance(t2, node) :
                t2 \in {Linked(r) : r \in {AVL_delete_node(t, t.left[node], v)}}})
    ELSE IF StrLess(t.value[node], v) THEN
        LET Linked(r) ==
                LET t1 == [r EXCEPT !.right[node] = r.ret]
                IN IF t1.right[node] # None THEN [t1 EXCEPT !.parent[t1.right[node]] = node] ELSE t1
        IN The({AVL_rebalance(t2, node) :
                t2 \in {Linked(r) : r \in {AVL_delete_node(t, t.right[node], v)}}})
    ELSE IF t.left[node] = None \/ t.right[node] = None THEN
        LET replacement == IF t.left[node] # None THEN t.left[node] ELSE t.right[node]
            t1 == IF replacement # None THEN [t EXCEPT !.parent[replacement] = t.parent[node]] ELSE t
        IN [t1 EXCEPT !.ret = replacement]
    ELSE
        LET succ == AVL_leftmost(t, t.right[node])
            t1 == [t EXCEPT !.value[node] = t.value[succ]]
            Linked(r) ==
                LET t2 == [r EXCEPT !.right[node] = r.ret]
                IN IF t2.right[node] # None THEN [t2 EXCEPT !.parent[t2.right[node]] = node] ELSE t2
        IN The({AVL_rebalance(t3, node) :
                t3 \in {Linked(r) : r \in {AVL_delete_node(t1, t1.right[node], t1.value[succ])}}})

\* Faulty variant of delete: the existence check is missing.
AVL_delete_no_membership_test(t, v) ==
    LET Rooted(r) ==
            LET t1 == [r EXCEPT !.root = r.ret]
                t2 == IF t1.root # None THEN [t1 EXCEPT !.parent[t1.root] = None] ELSE t1
            IN [t2 EXCEPT !.ret = TRUE]
    IN The({Rooted(r) : r \in {AVL_delete_node(t, t.root, v)}})

AVL_delete(t, v) ==
    IF ~AVL_contains(t, v).ret THEN [t EXCEPT !.ret = FALSE]
    ELSE
        LET Rooted(r) ==
                LET t1 == [r EXCEPT !.root = r.ret]
                    t2 == IF t1.root # None THEN [t1 EXCEPT !.parent[t1.root] = None] ELSE t1
                IN [t2 EXCEPT !.ret = TRUE]
        IN The({Rooted(r) : r \in {AVL_delete_node(t, t.root, v)}})

\* ------------------------------------------------------------------ RBTree
\* Faulty variant of contains: the walk turns the wrong way.
RECURSIVE RB_contains_from_wrong_side(_, _, _)
RB_contains_from_wrong_side(t, cur, v) ==
    IF cur = nil THEN FALSE
    ELSE IF v = t.value[cur] THEN TRUE
    ELSE IF StrLess(v, t.value[cur]) THEN RB_contains_from_wrong_side(t, t.right[cur], v)
    ELSE RB_contains_from_wrong_side(t, t.left[cur], v)

RECURSIVE RB_contains_from(_, _, _)
RB_contains_from(t, cur, v) ==
    IF cur = nil THEN FALSE
    ELSE IF v = t.value[cur] THEN TRUE
    ELSE IF StrLess(v, t.value[cur]) THEN RB_contains_from(t, t.left[cur], v)
    ELSE RB_contains_from(t, t.right[cur], v)

RB_contains(t, v) == [t EXCEPT !.ret = RB_contains_from(t, t.root, v)]

RB_left_rotate(t, x, is_delete) ==
    LET y == t.right[x] IN
    IF y = nil THEN [t EXCEPT !.guard = TRUE]
    ELSE
        LET t1 == [t EXCEPT !.right[x] = t.left[y]]
            t2 == IF t1.left[y] # nil THEN [t1 EXCEPT !.parent[t1.left[y]] = x] ELSE t1
            t3 == [t2 EXCEPT !.parent[y] = t2.parent[x]]
            xp == t3.parent[x]
            t4 == IF xp = nil THEN [t3 EXCEPT !.root = y]
                  ELSE IF x = t3.left[xp] THEN [t3 EXCEPT !.left[xp] = y]
                  ELSE [t3 EXCEPT !.right[xp] = y]
            t5 == [t4 EXCEPT !.left[y] = x]
            t6 == [t5 EXCEPT !.parent[x] = y]
        IN Log(CountRotation(t6, is_delete), "left", x, y, t.left[x])

RB_right_rotate(t, y, is_delete) ==
    LET x == t.left[y] IN
    IF x = nil THEN [t EXCEPT !.guard = TRUE]
    ELSE
        LET t1 == [t EXCEPT !.left[y] = t.right[x]]
            t2 == IF t1.right[x] # nil THEN [t1 EXCEPT !.parent[t1.right[x]] = y] ELSE t1
            t3 == [t2 EXCEPT !.parent[x] = t2.parent[y]]
            yp == t3.parent[y]
            t4 == IF yp = nil THEN [t3 EXCEPT !.root = x]
                  ELSE IF y = t3.left[yp] THEN [t3 EXCEPT !.left[yp] = x]
                  ELSE [t3 EXCEPT !.right[yp] = x]
            t5 == [t4 EXCEPT !.right[x] = y]
            t6 == [t5 EXCEPT !.parent[y] = x]
        IN Log(CountRotation(t6, is_delete), "right", y, x, t.right[y])

\* Faulty variant of the loop of _insert_fixup: the parent is left RED before the
\* rotation at the grandparent.
RECURSIVE RB_insert_fixup_loop_parent_left_red(_, _)
RB_insert_fixup_loop_parent_left_red(t0, z) ==
    IF t0.color[t0.parent[z]] # RED THEN t0
    ELSE IF Exhausted(t0) THEN Cut(t0)
    ELSE
        LET t == Step(t0)
            zp == t.parent[z]
            zpp == t.parent[zp]
        IN IF zp = t.left[zpp] THEN
               LET y == t.right[zpp] IN
               IF t.color[y] = RED THEN
                   LET t1 == [t EXCEPT !.color[zp] = BLACK]
                       t2 == [t1 EXCEPT !.color[y] = BLACK]
                       t3 == [t2 EXCEPT !.color[t2.parent[t2.parent[z]]] = RED]
                   IN RB_insert_fixup_loop_parent_left_red(t3, t3.parent[t3.parent[z]])
               ELSE
                   LET inner == z = t.right[zp]
                       z1 == IF inner THEN zp ELSE z
                       Recoloured(t1) ==
                           LET t2 == t1
                               t3 == [t2 EXCEPT !.color[t2.parent[t2.parent[z1]]] = RED]
                           IN RB_right_rotate(t3, t3.parent[t3.parent[z1]], FALSE)
                   IN The({RB_insert_fixup_loop_parent_left_red(t4, z1) :
                           t4 \in {Recoloured(t1) :
                                   t1 \in {IF inner THEN RB_left_rotate(t, z1, FALSE) ELSE t}}})
           ELSE
               LET y == t.left[zpp] IN
               IF t.color[y] = RED THEN
                   LET t1 == [t EXCEPT !.color[zp] = BLACK]
                       t2 == [t1 EXCEPT !.color[y] = BLACK]
                       t3 == [t2 EXCEPT !.color[t2.parent[t2.parent[z]]] = RED]
                   IN RB_insert_fixup_loop_parent_left_red(t3, t3.parent[t3.parent[z]])
               ELSE
                   LET inner == z = t.left[zp]
                       z1 == IF inner THEN zp ELSE z
                       Recoloured(t1) ==
                           LET t2 == t1
                               t3 == [t2 EXCEPT !.color[t2.parent[t2.parent[z1]]] = RED]
                           IN RB_left_rotate(t3, t3.parent[t3.parent[z1]], FALSE)
                   IN The({RB_insert_fixup_loop_parent_left_red(t4, z1) :
                           t4 \in {Recoloured(t1) :
                                   t1 \in {IF inner THEN RB_right_rotate(t, z1, FALSE) ELSE t}}})

\* The loop of _insert_fixup (`while z.parent.color == Node.RED`).
RECURSIVE RB_insert_fixup_loop(_, _)
RB_insert_fixup_loop(t0, z) ==
    IF t0.color[t0.parent[z]] # RED THEN t0
    ELSE IF Exhausted(t0) THEN Cut(t0)
    ELSE
        LET t == Step(t0)
            zp == t.parent[z]
            zpp == t.parent[zp]
        IN IF zp = t.left[zpp] THEN
               LET y == t.right[zpp] IN
               IF t.color[y] = RED THEN
                   LET t1 == [Log(t, "recolor", z, 0, 0) EXCEPT !.color[zp] = BLACK]
                       t2 == [t1 EXCEPT !.color[y] = BLACK]
                       t3 == [t2 EXCEPT !.color[t2.parent[t2.parent[z]]] = RED]
                   IN RB_insert_fixup_loop(t3, t3.parent[t3.parent[z]])
               ELSE
                   LET inner == z = t.right[zp]
                       z1 == IF inner THEN zp ELSE z
                       Recoloured(t1) ==
                           LET t2 == [t1 EXCEPT !.color[t1.parent[z1]] = BLACK]
                               t3 == [t2 EXCEPT !.color[t2.parent[t2.parent[z1]]] = RED]
                           IN RB_right_rotate(t3, t3.parent[t3.parent[z1]], FALSE)
                   IN The({RB_insert_fixup_loop(t4, z1) :
                           t4 \in {Recoloured(t1) :
                                   t1 \in {IF inner THEN RB_left_rotate(t, z1, FALSE) ELSE t}}})
           ELSE
               LET y == t.left[zpp] IN
               IF t.color[y] = RED THEN
                   LET t1 == [Log(t, "recolor", z, 0, 0) EXCEPT !.color[zp] = BLACK]
                       t2 == [t1 EXCEPT !.color[y] = BLACK]
                       t3 == [t2 EXCEPT !.color[t2.parent[t2.parent[z]]] = RED]
                   IN RB_insert_fixup_loop(t3, t3.parent[t3.parent[z]])
               ELSE
                   LET inner == z = t.left[zp]
                       z1 == IF inner THEN zp ELSE z
                       Recoloured(t1) ==
                           LET t2 == [t1 EXCEPT !.color[t1.parent[z1]] = BLACK]
                               t3 == [t2 EXCEPT !.color[t2.parent[t2.parent[z1]]] = RED]
                           IN RB_left_rotate(t3, t3.parent[t3.parent[z1]], FALSE)
                   IN The({RB_insert_fixup_loop(t4, z1) :
                           t4 \in {Recoloured(t1) :
                                   t1 \in {IF inner THEN RB_right_rotate(t, z1, FALSE) ELSE t}}})

\* Faulty variant of _insert_fixup: the repair loop is skipped.
RB_insert_fixup_no_loop(t, z) == [t EXCEPT !.color[t.root] = BLACK]

\* Faulty variant of _insert_fixup: the root is not recoloured after the loop.
RB_insert_fixup_root_not_recoloured(t, z) == RB_insert_fixup_loop(t, z)

RB_insert_fixup(t, z) ==
    The({[t1 EXCEPT !.color[t1.root] = BLACK] : t1 \in {RB_insert_fixup_loop(t, z)}})

\* insert's descent from x with y the node above it.
RECURSIVE RB_insert_descend(_, _, _, _)
RB_insert_descend(t, x, y, v) ==
    IF x = nil THEN [dup |-> FALSE, at |-> y]
    ELSE IF v = t.value[x] THEN [dup |-> TRUE, at |-> x]
    ELSE IF StrLess(v, t.value[x]) THEN RB_insert_descend(t, t.left[x], x, v)
    ELSE RB_insert_descend(t, t.right[x], x, v)

RB_insert(t, v) ==
    LET node == Alloc(t, v)
        t0 == NewNode(t, node, v, None, RED, NoPriority)
        t1 == [t0 EXCEPT !.left[node] = nil, !.right[node] = nil, !.parent[node] = nil]
        d == RB_insert_descend(t1, t1.root, nil, v)
    IN IF d.dup THEN [t1 EXCEPT !.ret = FALSE]
       ELSE
           LET y == d.at
               t2 == [t1 EXCEPT !.parent[node] = y]
               t3 == IF y = nil THEN [t2 EXCEPT !.root = node]
                     ELSE IF StrLess(v, t2.value[y]) THEN [t2 EXCEPT !.left[y] = node]
                     ELSE [t2 EXCEPT !.right[y] = node]
           IN The({[RB_insert_fixup(t4, node) EXCEPT !.ret = TRUE] : t4 \in {t3}})

\* Faulty variant of _transplant: v's parent link is left as it was.
RB_transplant_parent_not_set(t, u, v) ==
    LET up == t.parent[u]
    IN IF up = nil THEN [t EXCEPT !.root = v]
       ELSE IF u = t.left[up] THEN [t EXCEPT !.left[up] = v]
       ELSE [t EXCEPT !.right[up] = v]

\* Faulty variant of _transplant: the test for u being the root is missing.
RB_transplant_root_case_missing(t, u, v) ==
    LET up == t.parent[u]
        t1 == IF u = t.left[up] THEN [t EXCEPT !.left[up] = v]
              ELSE [t EXCEPT !.right[up] = v]
    IN [t1 EXCEPT !.parent[v] = t1.parent[u]]

RB_transplant(t, u, v) ==
    LET up == t.parent[u]
        t1 == IF up = nil THEN [t EXCEPT !.root = v]
              ELSE IF u = t.left[up] THEN [t EXCEPT !.left[up] = v]
              ELSE [t EXCEPT !.right[up] = v]
    IN [t1 EXCEPT !.parent[v] = t1.parent[u]]

\* Faulty variant of _minimum: the subtree's root is returned as it is.
RB_minimum_no_descent(t, node) == node

RECURSIVE RB_minimum(_, _)
RB_minimum(t, node) == IF t.left[node] # nil THEN RB_minimum(t, t.left[node]) ELSE node

\* Faulty variant of the loop of _delete_fixup: case 1 does not recolour x's
\* parent RED.
RECURSIVE RB_delete_fixup_loop_parent_left_black(_, _)
RB_delete_fixup_loop_parent_left_black(t0, x) ==
    IF ~(x # t0.root /\ t0.color[x] = BLACK) THEN [t0 EXCEPT !.ret = x]
    ELSE IF Exhausted(t0) THEN [Cut(t0) EXCEPT !.ret = x]
    ELSE
        LET t == Log(Step(t0), "iter", x, 0, 0) IN
        IF x = t.left[t.parent[x]] THEN
            LET \* case 4, then `x = self.root`
                Case4(t2, w) ==
                    LET c1 == [Log(t2, "case", 4, 0, 0) EXCEPT !.color[w] = t2.color[t2.parent[x]]]
                        c2 == [c1 EXCEPT !.color[c1.parent[x]] = BLACK]
                        c3 == [c2 EXCEPT !.color[c2.right[w]] = BLACK]
                    IN The({RB_delete_fixup_loop_parent_left_black(c4, c4.root) :
                                c4 \in {RB_left_rotate(c3, c3.parent[x], TRUE)}})
                \* case 3, run before case 4 when w's right child is BLACK
                Case3(t1, w) ==
                    LET b1 == [Log(t1, "case", 3, 0, 0) EXCEPT !.color[t1.left[w]] = BLACK]
                        b2 == [b1 EXCEPT !.color[w] = RED]
                    IN The({Case4(Log(b3, "sibling", b3.right[b3.parent[x]], 0, 0), b3.right[b3.parent[x]]) :
                                b3 \in {RB_right_rotate(b2, w, TRUE)}})
                \* case 2 (both of w's children BLACK), or cases 3 and 4
                Cases234(t1, w) ==
                    IF t1.color[t1.left[w]] = BLACK /\ t1.color[t1.right[w]] = BLACK THEN
                        LET t2 == [Log(t1, "case", 2, 0, 0) EXCEPT !.color[w] = RED]
                        IN RB_delete_fixup_loop_parent_left_black(t2, t2.parent[x])
                    ELSE IF t1.color[t1.right[w]] = BLACK THEN Case3(t1, w)
                    ELSE Case4(t1, w)
                \* case 1: the sibling w is RED
                Case1(w) ==
                    LET a1 == [Log(Log(t, "sibling", w, 0, 0), "case", 1, 0, 0) EXCEPT !.color[w] = BLACK]
                        a2 == a1
                    IN The({Cases234(Log(a3, "sibling", a3.right[a3.parent[x]], 0, 0), a3.right[a3.parent[x]]) :
                                a3 \in {RB_left_rotate(a2, a2.parent[x], TRUE)}})
                w0 == t.right[t.parent[x]]
                tw == Log(t, "sibling", w0, 0, 0)
            IN IF t.color[w0] = RED THEN Case1(w0) ELSE Cases234(tw, w0)
        ELSE
            LET Case4(t2, w) ==
                    LET c1 == [Log(t2, "case", 4, 0, 0) EXCEPT !.color[w] = t2.color[t2.parent[x]]]
                        c2 == [c1 EXCEPT !.color[c1.parent[x]] = BLACK]
                        c3 == [c2 EXCEPT !.color[c2.left[w]] = BLACK]
                    IN The({RB_delete_fixup_loop_parent_left_black(c4, c4.root) :
                                c4 \in {RB_right_rotate(c3, c3.parent[x], TRUE)}})
                Case3(t1, w) ==
                    LET b1 == [Log(t1, "case", 3, 0, 0) EXCEPT !.color[t1.right[w]] = BLACK]
                        b2 == [b1 EXCEPT !.color[w] = RED]
                    IN The({Case4(Log(b3, "sibling", b3.left[b3.parent[x]], 0, 0), b3.left[b3.parent[x]]) :
                                b3 \in {RB_left_rotate(b2, w, TRUE)}})
                Cases234(t1, w) ==
                    IF t1.color[t1.right[w]] = BLACK /\ t1.color[t1.left[w]] = BLACK THEN
                        LET t2 == [Log(t1, "case", 2, 0, 0) EXCEPT !.color[w] = RED]
                        IN RB_delete_fixup_loop_parent_left_black(t2, t2.parent[x])
                    ELSE IF t1.color[t1.left[w]] = BLACK THEN Case3(t1, w)
                    ELSE Case4(t1, w)
                Case1(w) ==
                    LET a1 == [Log(Log(t, "sibling", w, 0, 0), "case", 1, 0, 0) EXCEPT !.color[w] = BLACK]
                        a2 == a1
                    IN The({Cases234(Log(a3, "sibling", a3.left[a3.parent[x]], 0, 0), a3.left[a3.parent[x]]) :
                                a3 \in {RB_right_rotate(a2, a2.parent[x], TRUE)}})
                w0 == t.left[t.parent[x]]
                tw == Log(t, "sibling", w0, 0, 0)
            IN IF t.color[w0] = RED THEN Case1(w0) ELSE Cases234(tw, w0)

\* The loop of _delete_fixup (`while x is not self.root and x.color == Node.BLACK`);
\* ret is x when the loop ends.
RECURSIVE RB_delete_fixup_loop(_, _)
RB_delete_fixup_loop(t0, x) ==
    IF ~(x # t0.root /\ t0.color[x] = BLACK) THEN [t0 EXCEPT !.ret = x]
    ELSE IF Exhausted(t0) THEN [Cut(t0) EXCEPT !.ret = x]
    ELSE
        LET t == Log(Step(t0), "iter", x, 0, 0) IN
        IF x = t.left[t.parent[x]] THEN
            LET \* case 4, then `x = self.root`
                Case4(t2, w) ==
                    LET c1 == [Log(t2, "case", 4, 0, 0) EXCEPT !.color[w] = t2.color[t2.parent[x]]]
                        c2 == [c1 EXCEPT !.color[c1.parent[x]] = BLACK]
                        c3 == [c2 EXCEPT !.color[c2.right[w]] = BLACK]
                    IN The({RB_delete_fixup_loop(c4, c4.root) :
                                c4 \in {RB_left_rotate(c3, c3.parent[x], TRUE)}})
                \* case 3, run before case 4 when w's right child is BLACK
                Case3(t1, w) ==
                    LET b1 == [Log(t1, "case", 3, 0, 0) EXCEPT !.color[t1.left[w]] = BLACK]
                        b2 == [b1 EXCEPT !.color[w] = RED]
                    IN The({Case4(Log(b3, "sibling", b3.right[b3.parent[x]], 0, 0), b3.right[b3.parent[x]]) :
                                b3 \in {RB_right_rotate(b2, w, TRUE)}})
                \* case 2 (both of w's children BLACK), or cases 3 and 4
                Cases234(t1, w) ==
                    IF t1.color[t1.left[w]] = BLACK /\ t1.color[t1.right[w]] = BLACK THEN
                        LET t2 == [Log(t1, "case", 2, 0, 0) EXCEPT !.color[w] = RED]
                        IN RB_delete_fixup_loop(t2, t2.parent[x])
                    ELSE IF t1.color[t1.right[w]] = BLACK THEN Case3(t1, w)
                    ELSE Case4(t1, w)
                \* case 1: the sibling w is RED
                Case1(w) ==
                    LET a1 == [Log(Log(t, "sibling", w, 0, 0), "case", 1, 0, 0) EXCEPT !.color[w] = BLACK]
                        a2 == [a1 EXCEPT !.color[a1.parent[x]] = RED]
                    IN The({Cases234(Log(a3, "sibling", a3.right[a3.parent[x]], 0, 0), a3.right[a3.parent[x]]) :
                                a3 \in {RB_left_rotate(a2, a2.parent[x], TRUE)}})
                w0 == t.right[t.parent[x]]
                tw == Log(t, "sibling", w0, 0, 0)
            IN IF t.color[w0] = RED THEN Case1(w0) ELSE Cases234(tw, w0)
        ELSE
            LET Case4(t2, w) ==
                    LET c1 == [Log(t2, "case", 4, 0, 0) EXCEPT !.color[w] = t2.color[t2.parent[x]]]
                        c2 == [c1 EXCEPT !.color[c1.parent[x]] = BLACK]
                        c3 == [c2 EXCEPT !.color[c2.left[w]] = BLACK]
                    IN The({RB_delete_fixup_loop(c4, c4.root) :
                                c4 \in {RB_right_rotate(c3, c3.parent[x], TRUE)}})
                Case3(t1, w) ==
                    LET b1 == [Log(t1, "case", 3, 0, 0) EXCEPT !.color[t1.right[w]] = BLACK]
                        b2 == [b1 EXCEPT !.color[w] = RED]
                    IN The({Case4(Log(b3, "sibling", b3.left[b3.parent[x]], 0, 0), b3.left[b3.parent[x]]) :
                                b3 \in {RB_left_rotate(b2, w, TRUE)}})
                Cases234(t1, w) ==
                    IF t1.color[t1.right[w]] = BLACK /\ t1.color[t1.left[w]] = BLACK THEN
                        LET t2 == [Log(t1, "case", 2, 0, 0) EXCEPT !.color[w] = RED]
                        IN RB_delete_fixup_loop(t2, t2.parent[x])
                    ELSE IF t1.color[t1.left[w]] = BLACK THEN Case3(t1, w)
                    ELSE Case4(t1, w)
                Case1(w) ==
                    LET a1 == [Log(Log(t, "sibling", w, 0, 0), "case", 1, 0, 0) EXCEPT !.color[w] = BLACK]
                        a2 == [a1 EXCEPT !.color[a1.parent[x]] = RED]
                    IN The({Cases234(Log(a3, "sibling", a3.left[a3.parent[x]], 0, 0), a3.left[a3.parent[x]]) :
                                a3 \in {RB_right_rotate(a2, a2.parent[x], TRUE)}})
                w0 == t.left[t.parent[x]]
                tw == Log(t, "sibling", w0, 0, 0)
            IN IF t.color[w0] = RED THEN Case1(w0) ELSE Cases234(tw, w0)

\* Faulty variant of _delete_fixup: x is not recoloured after the loop.
RB_delete_fixup_x_not_recoloured(t, x) == RB_delete_fixup_loop(t, x)

RB_delete_fixup(t, x) ==
    LET xp == t.parent[x]
        named == IF xp = nil THEN t.root = x ELSE t.left[xp] = x \/ t.right[xp] = x
    IN The({[t1 EXCEPT !.color[t1.ret] = BLACK, !.fixup = TRUE] :
            t1 \in {RB_delete_fixup_loop(Log(t, "fixup", x, xp, IF named THEN 1 ELSE 0), x)}})

\* delete's search (`while z is not self.nil ... else: return False`): the node
\* holding v, or nil.
RECURSIVE RB_find(_, _, _)
RB_find(t, z, v) ==
    IF z = nil THEN nil
    ELSE IF v = t.value[z] THEN z
    ELSE IF StrLess(v, t.value[z]) THEN RB_find(t, t.left[z], v)
    ELSE RB_find(t, t.right[z], v)

\* Faulty variant of the replacement: the successor keeps its own color.
RB_delete_splice_color_not_taken(t, z) ==
    IF t.left[z] = nil THEN
        [s |-> RB_transplant(t, z, t.right[z]), x |-> t.right[z], c |-> t.color[z]]
    ELSE IF t.right[z] = nil THEN
        [s |-> RB_transplant(t, z, t.left[z]), x |-> t.left[z], c |-> t.color[z]]
    ELSE
        LET y == RB_minimum(t, t.right[z])
            x == t.right[y]
            Adopt(u1) ==
                LET u2 == [u1 EXCEPT !.right[y] = u1.right[z]]
                IN [u2 EXCEPT !.parent[u2.right[y]] = y]
            Replace(t2) ==
                LET t3 == [t2 EXCEPT !.left[y] = t2.left[z]]
                    t4 == [t3 EXCEPT !.parent[t3.left[y]] = y]
                IN t4
            t1 == IF t.parent[y] = z THEN [t EXCEPT !.parent[x] = y]
                  ELSE The({Adopt(u1) : u1 \in {RB_transplant(t, y, t.right[y])}})
            t5 == The({Replace(t2) : t2 \in {RB_transplant(u, z, y) : u \in {t1}}})
        IN [s |-> t5, x |-> x, c |-> t.color[y]]

\* Faulty variant of the replacement: y_original_color is not taken again after
\* y has become the successor.
RB_delete_splice_color_of_target_recorded(t, z) ==
    IF t.left[z] = nil THEN
        [s |-> RB_transplant(t, z, t.right[z]), x |-> t.right[z], c |-> t.color[z]]
    ELSE IF t.right[z] = nil THEN
        [s |-> RB_transplant(t, z, t.left[z]), x |-> t.left[z], c |-> t.color[z]]
    ELSE
        LET y == RB_minimum(t, t.right[z])
            x == t.right[y]
            Adopt(u1) ==
                LET u2 == [u1 EXCEPT !.right[y] = u1.right[z]]
                IN [u2 EXCEPT !.parent[u2.right[y]] = y]
            Replace(t2) ==
                LET t3 == [t2 EXCEPT !.left[y] = t2.left[z]]
                    t4 == [t3 EXCEPT !.parent[t3.left[y]] = y]
                IN [t4 EXCEPT !.color[y] = t4.color[z]]
            t1 == IF t.parent[y] = z THEN [t EXCEPT !.parent[x] = y]
                  ELSE The({Adopt(u1) : u1 \in {RB_transplant(t, y, t.right[y])}})
            t5 == The({Replace(t2) : t2 \in {RB_transplant(u, z, y) : u \in {t1}}})
        IN [s |-> t5, x |-> x, c |-> t.color[z]]

\* Faulty variant of the replacement: `x.parent = y` is left out when the
\* successor is z's right child.
RB_delete_splice_parent_of_x_not_set(t, z) ==
    IF t.left[z] = nil THEN
        [s |-> RB_transplant(t, z, t.right[z]), x |-> t.right[z], c |-> t.color[z]]
    ELSE IF t.right[z] = nil THEN
        [s |-> RB_transplant(t, z, t.left[z]), x |-> t.left[z], c |-> t.color[z]]
    ELSE
        LET y == RB_minimum(t, t.right[z])
            x == t.right[y]
            Adopt(u1) ==
                LET u2 == [u1 EXCEPT !.right[y] = u1.right[z]]
                IN [u2 EXCEPT !.parent[u2.right[y]] = y]
            Replace(t2) ==
                LET t3 == [t2 EXCEPT !.left[y] = t2.left[z]]
                    t4 == [t3 EXCEPT !.parent[t3.left[y]] = y]
                IN [t4 EXCEPT !.color[y] = t4.color[z]]
            t1 == IF t.parent[y] = z THEN t
                  ELSE The({Adopt(u1) : u1 \in {RB_transplant(t, y, t.right[y])}})
            t5 == The({Replace(t2) : t2 \in {RB_transplant(u, z, y) : u \in {t1}}})
        IN [s |-> t5, x |-> x, c |-> t.color[y]]

\* delete, from `y = z` to the end of the if/elif/else: the found node z is
\* replaced.  s is the instance then, x the node the fixup would start at and c
\* is y_original_color.
RB_delete_splice(t, z) ==
    IF t.left[z] = nil THEN
        [s |-> RB_transplant(t, z, t.right[z]), x |-> t.right[z], c |-> t.color[z]]
    ELSE IF t.right[z] = nil THEN
        [s |-> RB_transplant(t, z, t.left[z]), x |-> t.left[z], c |-> t.color[z]]
    ELSE
        LET y == RB_minimum(t, t.right[z])
            x == t.right[y]
            Adopt(u1) ==
                LET u2 == [u1 EXCEPT !.right[y] = u1.right[z]]
                IN [u2 EXCEPT !.parent[u2.right[y]] = y]
            Replace(t2) ==
                LET t3 == [t2 EXCEPT !.left[y] = t2.left[z]]
                    t4 == [t3 EXCEPT !.parent[t3.left[y]] = y]
                IN [t4 EXCEPT !.color[y] = t4.color[z]]
            t1 == IF t.parent[y] = z THEN [t EXCEPT !.parent[x] = y]
                  ELSE The({Adopt(u1) : u1 \in {RB_transplant(t, y, t.right[y])}})
            t5 == The({Replace(t2) : t2 \in {RB_transplant(u, z, y) : u \in {t1}}})
        IN [s |-> t5, x |-> x, c |-> t.color[y]]

\* Faulty variant of delete: the fixup runs whatever color was removed.
RB_delete_fixup_always(t, v) ==
    LET z == RB_find(t, t.root, v) IN
    IF z = nil THEN [t EXCEPT !.ret = FALSE]
    ELSE
        LET t6 == The({RB_delete_fixup(d.s, d.x) : d \in {RB_delete_splice(t, z)}})
        IN [t6 EXCEPT !.ret = TRUE]

RB_delete(t, v) ==
    LET z == RB_find(t, t.root, v) IN
    IF z = nil THEN [t EXCEPT !.ret = FALSE]
    ELSE
        LET t6 == The({IF d.c = BLACK THEN RB_delete_fixup(d.s, d.x) ELSE d.s :
                       d \in {RB_delete_splice(t, z)}})
        IN [t6 EXCEPT !.ret = TRUE]

\* ------------------------------------------------------------------ Treap
Treap_rotate_right(t, y, is_delete) ==
    LET x == t.left[y] IN
    IF x = None THEN [t EXCEPT !.ret = y, !.guard = TRUE]
    ELSE
        LET T2 == t.right[x]
            t1 == [t EXCEPT !.right[x] = y, !.left[y] = T2]
            t2 == [t1 EXCEPT !.parent[x] = t1.parent[y], !.parent[y] = x]
            t3 == IF T2 # None THEN [t2 EXCEPT !.parent[T2] = y] ELSE t2
            xp == t3.parent[x]
            t4 == IF xp = None THEN [t3 EXCEPT !.root = x]
                  ELSE IF t3.left[xp] = y THEN [t3 EXCEPT !.left[xp] = x]
                  ELSE [t3 EXCEPT !.right[xp] = x]
        IN [Log(CountRotation(t4, is_delete), "right", y, x, t.right[y]) EXCEPT !.ret = x]

Treap_rotate_left(t, x, is_delete) ==
    LET y == t.right[x] IN
    IF y = None THEN [t EXCEPT !.ret = x, !.guard = TRUE]
    ELSE
        LET T2 == t.left[y]
            t1 == [t EXCEPT !.left[y] = x, !.right[x] = T2]
            t2 == [t1 EXCEPT !.parent[y] = t1.parent[x], !.parent[x] = y]
            t3 == IF T2 # None THEN [t2 EXCEPT !.parent[T2] = x] ELSE t2
            yp == t3.parent[y]
            t4 == IF yp = None THEN [t3 EXCEPT !.root = y]
                  ELSE IF t3.left[yp] = x THEN [t3 EXCEPT !.left[yp] = y]
                  ELSE [t3 EXCEPT !.right[yp] = y]
        IN [Log(CountRotation(t4, is_delete), "left", x, y, t.left[x]) EXCEPT !.ret = y]

RECURSIVE Treap_insert_descend(_, _, _, _)
Treap_insert_descend(t, cur, par, v) ==
    IF cur = None THEN [dup |-> FALSE, at |-> par]
    ELSE IF v = t.value[cur] THEN [dup |-> TRUE, at |-> cur]
    ELSE IF StrLess(v, t.value[cur]) THEN Treap_insert_descend(t, t.left[cur], cur, v)
    ELSE Treap_insert_descend(t, t.right[cur], cur, v)

\* Faulty variant of insert's loop: the rotation goes the wrong way (a left
\* rotation of the parent for a left child, a right rotation for a right child).
RECURSIVE Treap_bubble_up_wrong_direction(_, _)
Treap_bubble_up_wrong_direction(t, cur) ==
    IF ~(t.parent[cur] # None /\ t.priority[t.parent[cur]] < t.priority[cur]) THEN t
    ELSE IF Exhausted(t) THEN Cut(t)
    ELSE IF t.left[t.parent[cur]] = cur
         THEN Treap_bubble_up_wrong_direction(Treap_rotate_left(Step(t), t.parent[cur], FALSE), cur)
         ELSE Treap_bubble_up_wrong_direction(Treap_rotate_right(Step(t), t.parent[cur], FALSE), cur)

\* Faulty variant of insert's loop: the node itself is rotated, not its parent.
RECURSIVE Treap_bubble_up_rotating_cur(_, _)
Treap_bubble_up_rotating_cur(t, cur) ==
    IF ~(t.parent[cur] # None /\ t.priority[t.parent[cur]] < t.priority[cur]) THEN t
    ELSE IF Exhausted(t) THEN Cut(t)
    ELSE IF t.left[t.parent[cur]] = cur
         THEN Treap_bubble_up_rotating_cur(Treap_rotate_right(Step(t), cur, FALSE), cur)
         ELSE Treap_bubble_up_rotating_cur(Treap_rotate_left(Step(t), cur, FALSE), cur)

\* Faulty variant of insert's loop: a parent of equal priority is rotated too.
RECURSIVE Treap_bubble_up_on_equal(_, _)
Treap_bubble_up_on_equal(t, cur) ==
    IF ~(t.parent[cur] # None /\ t.priority[t.parent[cur]] <= t.priority[cur]) THEN t
    ELSE IF Exhausted(t) THEN Cut(t)
    ELSE IF t.left[t.parent[cur]] = cur
         THEN Treap_bubble_up_on_equal(Treap_rotate_right(Step(t), t.parent[cur], FALSE), cur)
         ELSE Treap_bubble_up_on_equal(Treap_rotate_left(Step(t), t.parent[cur], FALSE), cur)

\* insert's loop `while cur.parent and cur.parent.priority < cur.priority`.
RECURSIVE Treap_bubble_up(_, _)
Treap_bubble_up(t, cur) ==
    IF ~(t.parent[cur] # None /\ t.priority[t.parent[cur]] < t.priority[cur]) THEN t
    ELSE IF Exhausted(t) THEN Cut(t)
    ELSE IF t.left[t.parent[cur]] = cur
         THEN Treap_bubble_up(Treap_rotate_right(Step(t), t.parent[cur], FALSE), cur)
         ELSE Treap_bubble_up(Treap_rotate_left(Step(t), t.parent[cur], FALSE), cur)

\* Faulty variant of insert: a duplicate key gives the node holding it a fresh
\* priority.
Treap_insert_duplicate_redrawn(t, v, drawn) ==
    IF t.root = None THEN
        LET node == Alloc(t, v)
        IN [NewNode(t, node, v, None, NoColor, drawn) EXCEPT !.root = node, !.ret = TRUE]
    ELSE
        LET d == Treap_insert_descend(t, t.root, None, v) IN
        IF d.dup THEN [t EXCEPT !.priority[d.at] = drawn, !.ret = FALSE]
        ELSE
            LET par == d.at
                new_node == Alloc(t, v)
                t1 == NewNode(t, new_node, v, par, NoColor, drawn)
                t2 == IF StrLess(v, t1.value[par]) THEN [t1 EXCEPT !.left[par] = new_node]
                      ELSE [t1 EXCEPT !.right[par] = new_node]
            IN [Treap_bubble_up(t2, new_node) EXCEPT !.ret = TRUE]

\* Faulty variant of insert: the priority is drawn before the search, so a
\* duplicate key draws one too.
Treap_insert_drawing_first(t, v, drawn) ==
    IF t.root = None THEN
        LET node == Alloc(t, v)
        IN [NewNode(t, node, v, None, NoColor, drawn) EXCEPT
               !.root = node, !.ret = TRUE, !.draws = @ + 1]
    ELSE
        LET d == Treap_insert_descend(t, t.root, None, v) IN
        IF d.dup THEN [t EXCEPT !.ret = FALSE, !.draws = @ + 1]
        ELSE
            LET par == d.at
                new_node == Alloc(t, v)
                t1 == [NewNode(t, new_node, v, par, NoColor, drawn) EXCEPT !.draws = @ + 1]
                t2 == IF StrLess(v, t1.value[par]) THEN [t1 EXCEPT !.left[par] = new_node]
                      ELSE [t1 EXCEPT !.right[par] = new_node]
            IN [Treap_bubble_up(t2, new_node) EXCEPT !.ret = TRUE]

\* insert(value); drawn is what random.randint(0, self.max_priority) returns when
\* the call reaches it.
Treap_insert(t, v, drawn) ==
    IF t.root = None THEN
        LET node == Alloc(t, v)
        IN [NewNode(t, node, v, None, NoColor, drawn) EXCEPT
               !.root = node, !.ret = TRUE, !.draws = @ + 1]
    ELSE
        LET d == Treap_insert_descend(t, t.root, None, v) IN
        IF d.dup THEN [t EXCEPT !.ret = FALSE]
        ELSE
            LET par == d.at
                new_node == Alloc(t, v)
                t1 == [NewNode(t, new_node, v, par, NoColor, drawn) EXCEPT !.draws = @ + 1]
                t2 == IF StrLess(v, t1.value[par]) THEN [t1 EXCEPT !.left[par] = new_node]
                      ELSE [t1 EXCEPT !.right[par] = new_node]
            IN [Treap_bubble_up(t2, new_node) EXCEPT !.ret = TRUE]

\* delete's search `while cur and cur.value != value`.
RECURSIVE Treap_find(_, _, _)
Treap_find(t, cur, v) ==
    IF ~(cur # None /\ t.value[cur] # v) THEN cur
    ELSE IF StrLess(v, t.value[cur]) THEN Treap_find(t, t.left[cur], v)
    ELSE Treap_find(t, t.right[cur], v)

RECURSIVE Treap_contains_from(_, _, _)
Treap_contains_from(t, cur, v) ==
    IF cur = None THEN FALSE
    ELSE IF v = t.value[cur] THEN TRUE
    ELSE IF StrLess(v, t.value[cur]) THEN Treap_contains_from(t, t.left[cur], v)
    ELSE Treap_contains_from(t, t.right[cur], v)

\* Faulty variant of contains: a self-adjusting lookup, the node found is rotated
\* one level up.
Treap_contains_rotating_up(t, v) ==
    LET cur == Treap_find(t, t.root, v) IN
    IF cur = None THEN [t EXCEPT !.ret = FALSE]
    ELSE IF t.parent[cur] = None THEN [t EXCEPT !.ret = TRUE]
    ELSE IF t.left[t.parent[cur]] = cur
         THEN [Treap_rotate_right(t, t.parent[cur], FALSE) EXCEPT !.ret = TRUE]
         ELSE [Treap_rotate_left(t, t.parent[cur], FALSE) EXCEPT !.ret = TRUE]

Treap_contains(t, v) == [t EXCEPT !.ret = Treap_contains_from(t, t.root, v)]

\* Faulty variant of delete's loop: with two children the left one is always
\* rotated up, whatever the priorities.
RECURSIVE Treap_rotate_down_ignoring_priority(_, _)
Treap_rotate_down_ignoring_priority(t, cur) ==
    IF ~(t.left[cur] # None \/ t.right[cur] # None) THEN t
    ELSE IF Exhausted(t) THEN Cut(t)
    ELSE IF t.left[cur] = None
         THEN Treap_rotate_down_ignoring_priority(Treap_rotate_left(Step(t), cur, TRUE), cur)
         ELSE Treap_rotate_down_ignoring_priority(Treap_rotate_right(Step(t), cur, TRUE), cur)

\* Faulty variant of delete's loop: children of equal priority resolve to a
\* right rotation (`>=`).
RECURSIVE Treap_rotate_down_ties_to_the_right(_, _)
Treap_rotate_down_ties_to_the_right(t, cur) ==
    IF ~(t.left[cur] # None \/ t.right[cur] # None) THEN t
    ELSE IF Exhausted(t) THEN Cut(t)
    ELSE IF t.left[cur] = None
         THEN Treap_rotate_down_ties_to_the_right(Treap_rotate_left(Step(t), cur, TRUE), cur)
    ELSE IF t.right[cur] = None
         THEN Treap_rotate_down_ties_to_the_right(Treap_rotate_right(Step(t), cur, TRUE), cur)
    ELSE IF t.priority[t.left[cur]] >= t.priority[t.right[cur]]
         THEN Treap_rotate_down_ties_to_the_right(Treap_rotate_right(Step(t), cur, TRUE), cur)
         ELSE Treap_rotate_down_ties_to_the_right(Treap_rotate_left(Step(t), cur, TRUE), cur)

\* delete's loop `while cur.left or cur.right`.
RECURSIVE Treap_rotate_down(_, _)
Treap_rotate_down(t, cur) ==
    IF ~(t.left[cur] # None \/ t.right[cur] # None) THEN t
    ELSE IF Exhausted(t) THEN Cut(t)
    ELSE IF t.left[cur] = None THEN Treap_rotate_down(Treap_rotate_left(Step(t), cur, TRUE), cur)
    ELSE IF t.right[cur] = None THEN Treap_rotate_down(Treap_rotate_right(Step(t), cur, TRUE), cur)
    ELSE IF t.priority[t.left[cur]] > t.priority[t.right[cur]]
         THEN Treap_rotate_down(Treap_rotate_right(Step(t), cur, TRUE), cur)
         ELSE Treap_rotate_down(Treap_rotate_left(Step(t), cur, TRUE), cur)

\* Faulty variant of delete: removing the last node (the leaf without a parent)
\* forgets to clear self.root.
Treap_delete_root_not_cleared(t, v) ==
    LET cur == Treap_find(t, t.root, v) IN
    IF cur = None THEN [t EXCEPT !.ret = FALSE]
    ELSE
        LET t1 == Treap_rotate_down(t, cur)
            t2 == IF t1.parent[cur] = None THEN t1
                  ELSE IF t1.left[t1.parent[cur]] = cur THEN [t1 EXCEPT !.left[t1.parent[cur]] = None]
                  ELSE [t1 EXCEPT !.right[t1.parent[cur]] = None]
        IN [t2 EXCEPT !.ret = TRUE]

Treap_delete(t, v) ==
    LET cur == Treap_find(t, t.root, v) IN
    IF cur = None THEN [t EXCEPT !.ret = FALSE]
    ELSE
        LET t1 == Treap_rotate_down(t, cur)
            t2 == IF t1.parent[cur] = None THEN [t1 EXCEPT !.root = None]
                  ELSE IF t1.left[t1.parent[cur]] = cur THEN [t1 EXCEPT !.left[t1.parent[cur]] = None]
                  ELSE [t1 EXCEPT !.right[t1.parent[cur]] = None]
        IN [t2 EXCEPT !.ret = TRUE]

\* ------------------------------------------------------------------ validate
\* validate() raises AssertionError on the first failed assertion and returns None
\* otherwise: modelled as the conjunction of its assertions (TRUE: no assertion failed).

\* AVLTree.validate._check: ok, and the height it returns.
RECURSIVE AVL_check(_, _)
AVL_check(t, node) ==
    IF node = None THEN [ok |-> TRUE, h |-> 0]
    ELSE
        LET l == AVL_check(t, t.left[node])
            r == AVL_check(t, t.right[node])
            expected_height == 1 + Max(l.h, r.h)
            balance == l.h - r.h
        IN [ok |-> /\ l.ok
                   /\ r.ok
                   /\ t.left[node] # None => StrLess(t.value[t.left[node]], t.value[node])
                   /\ t.right[node] # None => StrLess(t.value[node], t.value[t.right[node]])
                   /\ t.height[node] = expected_height
                   /\ -1 <= balance /\ balance <= 1,
            h |-> expected_height]

AVL_validate(t) == IF t.root # None THEN AVL_check(t, t.root).ok ELSE TRUE

\* Faulty variant of check_node: a RED node's right child is not looked at.
RECURSIVE RB_check_node_right_child_unchecked(_, _, _, _)
RB_check_node_right_child_unchecked(t, node, min_val, max_val) ==
    IF node = nil THEN [ok |-> TRUE, bh |-> 1]
    ELSE
        LET l == RB_check_node_right_child_unchecked(t, t.left[node], min_val, t.value[node])
            r == RB_check_node_right_child_unchecked(t, t.right[node], t.value[node], max_val)
        IN [ok |-> /\ min_val # NoValue => StrLess(min_val, t.value[node])
                   /\ max_val # NoValue => StrLess(t.value[node], max_val)
                   /\ l.ok
                   /\ r.ok
                   /\ l.bh = r.bh
                   /\ t.color[node] = RED => t.color[t.left[node]] = BLACK,
            bh |-> l.bh + (IF t.color[node] = BLACK THEN 1 ELSE 0)]

\* RBTree.validate.check_node: ok, and the black height it returns.  An absent
\* bound (None) is NoValue.
RECURSIVE RB_check_node(_, _, _, _)
RB_check_node(t, node, min_val, max_val) ==
    IF node = nil THEN [ok |-> TRUE, bh |-> 1]
    ELSE
        LET l == RB_check_node(t, t.left[node], min_val, t.value[node])
            r == RB_check_node(t, t.right[node], t.value[node], max_val)
        IN [ok |-> /\ min_val # NoValue => StrLess(min_val, t.value[node])
                   /\ max_val # NoValue => StrLess(t.value[node], max_val)
                   /\ l.ok
                   /\ r.ok
                   /\ l.bh = r.bh
                   /\ t.color[node] = RED =>
                          t.color[t.left[node]] = BLACK /\ t.color[t.right[node]] = BLACK,
            bh |-> l.bh + (IF t.color[node] = BLACK THEN 1 ELSE 0)]

RB_validate(t) ==
    /\ t.root # nil => t.color[t.root] = BLACK
    /\ RB_check_node(t, t.root, NoValue, NoValue).ok

\* Treap.validate._check.
RECURSIVE Treap_check(_, _, _, _)
Treap_check(t, node, min_val, max_val) ==
    IF node = None THEN TRUE
    ELSE
        /\ min_val # NoValue => StrLess(min_val, t.value[node])
        /\ max_val # NoValue => StrLess(t.value[node], max_val)
        /\ t.left[node] # None =>
               /\ t.priority[t.left[node]] <= t.priority[node]
               /\ t.parent[t.left[node]] = node
        /\ t.right[node] # None =>
               /\ t.priority[t.right[node]] <= t.priority[node]
               /\ t.parent[t.right[node]] = node
        /\ Treap_check(t, t.left[node], min_val, t.value[node])
        /\ Treap_check(t, t.right[node], t.value[node], max_val)

Treap_validate(t) == Treap_check(t, t.root, NoValue, NoValue)

\* ------------------------------------------------------------------ the instance
\* What is left of the arena when a public call returns.  Node objects no longer
\* linked under root are gone: their cells are blank and free again, and a link
\* still pointing at one of them points at Detached.  The cells are then renamed
\* so that the node holding the key of rank i sits in cell i: which cell an object
\* has cannot be observed, and AVLTree.delete moves keys between objects.
Collect(t) ==
    LET live == Live(t)
        named == /\ \A n \in live : t.value[n] \in AllKeys
                 /\ \A m, n \in live : t.value[m] = t.value[n] => m = n
        cell == [n \in live |-> IF named THEN KeyIndex(t.value[n]) ELSE n]
        link == [n \in Cells |-> IF n \in live THEN cell[n]
                                 ELSE IF n \in {None, nil} THEN n ELSE Detached]
        kept == {nil} \cup {cell[n] : n \in live}
        from == [c \in kept |-> IF c = nil THEN nil ELSE CHOOSE n \in live : cell[n] = c]
    IN [t EXCEPT
          !.root = link[t.root],
          !.value = [c \in Cells |-> IF c \in kept THEN t.value[from[c]] ELSE NoValue],
          !.parent = [c \in Cells |-> IF c \in kept THEN link[t.parent[from[c]]] ELSE None],
          !.left = [c \in Cells |-> IF c \in kept THEN link[t.left[from[c]]] ELSE None],
          !.right = [c \in Cells |-> IF c \in kept THEN link[t.right[from[c]]] ELSE None],
          !.height = [c \in Cells |-> IF c \in kept THEN t.height[from[c]] ELSE 1],
          !.color = [c \in Cells |-> IF c \in kept THEN t.color[from[c]] ELSE NoColor],
          !.priority = [c \in Cells |-> IF c \in kept THEN t.priority[from[c]] ELSE NoPriority]]

\* The call `op` returned in t: the instance is now t.
Return(t0, op, was) ==
    \E t1 \in {t0} : \E t \in {Collect(t1)} :
    /\ root' = t.root
    /\ value' = t.value
    /\ parent' = t.parent
    /\ left' = t.left
    /\ right' = t.right
    /\ height' = t.height
    /\ color' = t.color
    /\ priority' = t.priority
    /\ rotations_insert' = t.rotations_insert
    /\ rotations_delete' = t.rotations_delete
    /\ lastOp' = [op |-> op, was |-> was, ret |-> t.ret, guard |-> t.guard, stuck |-> t.stuck]
    /\ engine' = engine

\* The binary trees of n nodes in the cells first .. first + n - 1, numbered in
\* preorder: a set of <<node, left child, right child>>, 0 for no child.
RECURSIVE Shapes(_, _)
Shapes(first, n) ==
    IF n = 0 THEN {{}}
    ELSE UNION {
            {{<<first, IF k > 0 THEN first + 1 ELSE 0,
                       IF n - 1 - k > 0 THEN first + 1 + k ELSE 0>>} \cup L \cup R :
                 L \in Shapes(first + 1, k), R \in Shapes(first + 1 + k, n - 1 - k)} :
            k \in 0..(n - 1)}

\* The keys such a tree is labelled with.
Labels == {str(i) : i \in FirstKey..(FirstKey + NumKeys - 3)}

\* Labels from the smallest to the largest, as Python compares strings.
RECURSIVE Ascending(_)
Ascending(S) ==
    IF S = {} THEN <<>>
    ELSE LET m == CHOOSE x \in S : \A y \in S \ {x} : StrLess(x, y)
         IN <<m>> \o Ascending(S \ {m})

LabelsAscending == Ascending(Labels)

\* The ways to give n nodes values, repeats allowed.  validate only compares
\* values, so of the labellings that differ by an order-preserving renaming of
\* the keys one is kept: the one that uses the k smallest keys, each at least once.
Labellings(n) ==
    UNION {{[c \in 1..n |-> LabelsAscending[g[c]]] :
                g \in {h \in [1..n -> 1..k] : \A i \in 1..k : \E c \in 1..n : h[c] = i}} :
           k \in 0..Len(LabelsAscending)}

\* An instance whose n Node objects were linked in the shape sh and given the
\* values val, the heights hts and the colors col by assignments to their fields
\* (test_validate_raises_on_corruption writes value, height and color);
\* absent is what the class puts where a child or the root's parent is missing.
Assigned(n, sh, val, hts, col, absent) ==
    LET at(c) == The({tr \in sh : tr[1] = c})
        link(k) == IF k = 0 THEN absent ELSE k
        above(c) == IF \E tr \in sh : tr[2] = c \/ tr[3] = c
                    THEN The({tr[1] : tr \in {x \in sh : x[2] = c \/ x[3] = c}})
                    ELSE absent
        own(c) == IF c = nil /\ absent = nil THEN nil ELSE None
    IN
    /\ root = IF n = 0 THEN absent ELSE 1
    /\ value = [c \in Cells |-> IF c \in 1..n THEN val[c] ELSE NoValue]
    /\ parent = [c \in Cells |-> IF c \in 1..n THEN above(c) ELSE own(c)]
    /\ left = [c \in Cells |-> IF c \in 1..n THEN link(at(c)[2]) ELSE own(c)]
    /\ right = [c \in Cells |-> IF c \in 1..n THEN link(at(c)[3]) ELSE own(c)]
    /\ height = [c \in Cells |-> IF c \in 1..n THEN hts[c] ELSE 1]
    /\ color = [c \in Cells |-> IF c \in 1..n THEN col[c]
                                 ELSE IF c = nil /\ absent = nil THEN BLACK ELSE NoColor]
    /\ priority = [c \in Cells |-> NoPriority]
    /\ rotations_insert = 0
    /\ rotations_delete = 0
    /\ present = {val[c] : c \in 1..n}
    /\ lastOp = [op |-> "init", was |-> FALSE, ret |-> FALSE, guard |-> FALSE, stuck |-> FALSE]

\* Faulty variant of the constructors: RBTree.__init__ builds the sentinel as
\* Node(None), with Node's default color.
Constructed_sentinel_color_defaulted ==
    /\ engine \in {"AVL", "RB", "Treap"}
    /\ root = IF engine = "RB" THEN nil ELSE None
    /\ value = [n \in Cells |-> NoValue]
    /\ parent = [n \in Cells |-> IF n = nil /\ engine = "RB" THEN nil ELSE None]
    /\ left = [n \in Cells |-> IF n = nil /\ engine = "RB" THEN nil ELSE None]
    /\ right = [n \in Cells |-> IF n = nil /\ engine = "RB" THEN nil ELSE None]
    /\ height = [n \in Cells |-> 1]
    /\ color = [n \in Cells |-> NoColor]
    /\ priority = [n \in Cells |-> NoPriority]
    /\ rotations_insert = 0
    /\ rotations_delete = 0
    /\ present = {}
    /\ lastOp = [op |-> "init", was |-> FALSE, ret |-> FALSE, guard |-> FALSE, stuck |-> FALSE]

\* AVLTree(), RBTree(), Treap(max_priority = MaxPriority) with no values.
\* RBTree.__init__ makes the sentinel: BLACK, its own left, right and parent, and the root.
Constructed ==
    /\ engine \in {"AVL", "RB", "Treap"}
    /\ root = IF engine = "RB" THEN nil ELSE None
    /\ value = [n \in Cells |-> NoValue]
    /\ parent = [n \in Cells |-> IF n = nil /\ engine = "RB" THEN nil ELSE None]
    /\ left = [n \in Cells |-> IF n = nil /\ engine = "RB" THEN nil ELSE None]
    /\ right = [n \in Cells |-> IF n = nil /\ engine = "RB" THEN nil ELSE None]
    /\ height = [n \in Cells |-> 1]
    /\ color = [n \in Cells |-> IF n = nil /\ engine = "RB" THEN BLACK ELSE NoColor]
    /\ priority = [n \in Cells |-> NoPriority]
    /\ rotations_insert = 0
    /\ rotations_delete = 0
    /\ present = {}
    /\ lastOp = [op |-> "init", was |-> FALSE, ret |-> FALSE, guard |-> FALSE, stuck |-> FALSE]

\* No observer watched the last call.
Unobserved == [kind |-> "none"]

\* A caller bound to no protocol.
Free == [phase |-> "free", filled |-> {}]
\* The generator as a caller of one instance sees it: each draw is any number of
\* the range, given to insert as `drawn`; its state is not followed.
Unseeded == [stream |-> <<>>, pos |-> 0, own |-> 0, made |-> 0, last |-> NoPriority]

Init == Constructed /\ drain = Free /\ random = Unseeded /\ probe = Unobserved

\* BaseDataStructure.total_rotations
total_rotations == rotations_insert + rotations_delete

\* The caller goes on using the tree only while the counters are within the bound,
\* and resets the metrics when they are not.
WithinBudget == total_rotations < MaxRotations

AVLInsert ==
    /\ engine = "AVL" /\ WithinBudget
    /\ \E self \in {Self}, v \in Keys :
        /\ Return(AVL_insert(self, v), "insert", v \in present)
        /\ present' = present \cup {v}
    /\ UNCHANGED <<drain, random>>
    /\ probe' = Unobserved

AVLDelete ==
    /\ engine = "AVL" /\ WithinBudget
    /\ \E self \in {Self}, v \in Keys :
        /\ Return(AVL_delete(self, v), "delete", v \in present)
        /\ present' = present \ {v}
    /\ UNCHANGED <<drain, random>>
    /\ probe' = Unobserved

AVLContains ==
    /\ engine = "AVL" /\ WithinBudget
    /\ \E self \in {Self}, v \in Keys :
        /\ Return(AVL_contains(self, v), "contains", v \in present)
        /\ present' = present
    /\ UNCHANGED <<drain, random>>
    /\ probe' = Unobserved

AVLValidate ==
    /\ engine = "AVL" /\ WithinBudget
    /\ \E self \in {Self} : Return([self EXCEPT !.ret = AVL_validate(self)], "validate", FALSE)
    /\ present' = present
    /\ UNCHANGED <<drain, random>>
    /\ probe' = Unobserved

RBInsert ==
    /\ engine = "RB" /\ WithinBudget
    /\ \E self \in {Self}, v \in Keys :
        /\ Return(RB_insert(self, v), "insert", v \in present)
        /\ present' = present \cup {v}
    /\ UNCHANGED <<drain, random>>
    /\ probe' = Unobserved

RBDelete ==
    /\ engine = "RB" /\ WithinBudget
    /\ \E self \in {Self}, v \in Keys :
        /\ Return(RB_delete(self, v), "delete", v \in present)
        /\ present' = present \ {v}
    /\ UNCHANGED <<drain, random>>
    /\ probe' = Unobserved

RBContains ==
    /\ engine = "RB" /\ WithinBudget
    /\ \E self \in {Self}, v \in Keys :
        /\ Return(RB_contains(self, v), "contains", v \in present)
        /\ present' = present
    /\ UNCHANGED <<drain, random>>
    /\ probe' = Unobserved

RBValidate ==
    /\ engine = "RB" /\ WithinBudget
    /\ \E self \in {Self} : Return([self EXCEPT !.ret = RB_validate(self)], "validate", FALSE)
    /\ present' = present
    /\ UNCHANGED <<drain, random>>
    /\ probe' = Unobserved

TreapInsert ==
    /\ engine = "Treap" /\ WithinBudget
    /\ \E self \in {Self}, v \in TreapKeys, drawn \in 0..MaxPriority :
        /\ Return(Treap_insert(self, v, drawn), "insert", v \in present)
        /\ present' = present \cup {v}
    /\ UNCHANGED <<drain, random>>
    /\ probe' = Unobserved

TreapDelete ==
    /\ engine = "Treap" /\ WithinBudget
    /\ \E self \in {Self}, v \in TreapKeys :
        /\ Return(Treap_delete(self, v), "delete", v \in present)
        /\ present' = present \ {v}
    /\ UNCHANGED <<drain, random>>
    /\ probe' = Unobserved

TreapContains ==
    /\ engine = "Treap" /\ WithinBudget
    /\ \E self \in {Self}, v \in TreapKeys :
        /\ Return(Treap_contains(self, v), "contains", v \in present)
        /\ present' = present
    /\ UNCHANGED <<drain, random>>
    /\ probe' = Unobserved

TreapValidate ==
    /\ engine = "Treap" /\ WithinBudget
    /\ \E self \in {Self} : Return([self EXCEPT !.ret = Treap_validate(self)], "validate", FALSE)
    /\ present' = present
    /\ UNCHANGED <<drain, random>>
    /\ probe' = Unobserved

\* Faulty variant of reset_metrics: rotations_delete is left as it is.
reset_metrics_delete_counter_kept(t) == [t EXCEPT !.rotations_insert = 0]

\* BaseDataStructure.reset_metrics, the same for the three engines.
reset_metrics(t) == [t EXCEPT !.rotations_insert = 0, !.rotations_delete = 0]

ResetMetrics ==
    /\ \E self \in {Self} : Return(reset_metrics(self), "reset_metrics", FALSE)
    /\ present' = present
    /\ UNCHANGED <<drain, random>>
    /\ probe' = Unobserved

Next ==
    \/ AVLInsert \/ AVLDelete \/ AVLContains \/ AVLValidate
    \/ RBInsert \/ RBDelete \/ RBContains \/ RBValidate
    \/ TreapInsert \/ TreapDelete \/ TreapContains \/ TreapValidate
    \/ ResetMetrics

Spec == Init /\ [][Next]_vars

\* The caller's view of an instance through BaseDataStructure: the call goes to
\* the method of the instance's class.
insert(t, v, drawn) ==
    IF engine = "AVL" THEN AVL_insert(t, v)
    ELSE IF engine = "RB" THEN RB_insert(t, v)
    ELSE Treap_insert(t, v, drawn)

delete(t, v) ==
    IF engine = "AVL" THEN AVL_delete(t, v)
    ELSE IF engine = "RB" THEN RB_delete(t, v)
    ELSE Treap_delete(t, v)

\* The keys the callers of the instance draw from.
KeysOf == IF engine = "Treap" THEN TreapKeys ELSE Keys

\* A caller that fills an empty tree with distinct keys, in any order, and then
\* deletes every one of them, in any order (test_delete_until_empty).
Filling == [phase |-> "fill", filled |-> {}]

InitDrain == Constructed /\ drain = Filling /\ random = Unseeded /\ probe = Unobserved

\* `for v in values: t.insert(v)`
DrainInsert ==
    /\ drain.phase = "fill" /\ WithinBudget
    /\ \E self \in {Self}, v \in KeysOf \ present, drawn \in 0..MaxPriority :
        /\ Return(insert(self, v, drawn), "insert", FALSE)
        /\ present' = present \cup {v}
    /\ UNCHANGED <<drain, random>>
    /\ probe' = Unobserved

\* `for v in list(values): t.delete(v)`; the first delete ends the filling.
DrainDelete ==
    /\ drain.phase \in {"fill", "drain"} /\ WithinBudget
    /\ \E self \in {Self}, v \in present :
        /\ Return(delete(self, v), "delete", TRUE)
        /\ present' = present \ {v}
    /\ drain' = [phase |-> "drain",
                 filled |-> IF drain.phase = "fill" THEN present ELSE drain.filled]
    /\ random' = random
    /\ probe' = Unobserved

NextDrain == DrainInsert \/ DrainDelete \/ ResetMetrics
SpecDrain == InitDrain /\ [][NextDrain]_vars

\* validate() of whichever class the instance is.
validate(t) ==
    IF engine = "AVL" THEN AVL_validate(t)
    ELSE IF engine = "RB" THEN RB_validate(t)
    ELSE Treap_validate(t)

\* A test that builds a tree from a short list of distinct keys and then looks
\* at it (test_rotations_ll_rr_lr_rl): `filled` is the list inserted so far.
Scripted == [phase |-> "script", filled |-> <<>>]

InitScript == Constructed /\ drain = Scripted /\ random = Unseeded /\ probe = Unobserved

\* `t.insert(v)` for the next key of the list.
ScriptInsert ==
    /\ drain.phase = "script" /\ WithinBudget /\ Len(drain.filled) < ScriptLen
    /\ \E self \in {Self}, v \in KeysOf \ present, drawn \in 0..MaxPriority :
        /\ Return(insert(self, v, drawn), "insert", FALSE)
        /\ present' = present \cup {v}
        /\ drain' = [drain EXCEPT !.filled = Append(@, v)]
    /\ UNCHANGED random
    /\ probe' = Unobserved

\* `t.validate()` between the inserts or after them.
ScriptValidate ==
    /\ drain.phase = "script" /\ WithinBudget
    /\ \E self \in {Self} : Return([self EXCEPT !.ret = validate(self)], "validate", FALSE)
    /\ present' = present
    /\ UNCHANGED <<drain, random>>
    /\ probe' = Unobserved

NextScript == ScriptInsert \/ ScriptValidate
SpecScript == InitScript /\ [][NextScript]_vars

\* An AVLTree of any shape, values and height fields, then validated.
InitAVLAny ==
    /\ engine = "AVL" /\ drain = Free /\ random = Unseeded /\ probe = Unobserved
    /\ \E n \in 0..AnyNodes :
         \E sh \in Shapes(1, n), val \in Labellings(n), hts \in [1..n -> 1..AnyHeight] :
            Assigned(n, sh, val, hts, [c \in 1..n |-> NoColor], None)

SpecAVLAny == InitAVLAny /\ [][AVLValidate]_vars

\* An RBTree of any shape, values and colors under its sentinel, then validated.
InitRBAny ==
    /\ engine = "RB" /\ drain = Free /\ random = Unseeded /\ probe = Unobserved
    /\ \E n \in 0..AnyNodes :
         \E sh \in Shapes(1, n), val \in Labellings(n), col \in [1..n -> {RED, BLACK}] :
            Assigned(n, sh, val, [c \in 1..n |-> 1], col, nil)

SpecRBAny == InitRBAny /\ [][RBValidate]_vars

\* A Treap in a process that holds other Treap instances.  Treap.insert calls
\* random.randint(0, self.max_priority) on the random module itself, whose one
\* generator every instance of the process draws from: seeded, it hands out a
\* fixed sequence (stream), one number per call, whoever calls (pos counts the
\* calls).  own counts the draws of this instance and last is its latest one.
Seeded(stream) == [stream |-> stream, pos |-> 0, own |-> 0, made |-> 0, last |-> NoPriority]

InitShared ==
    /\ Constructed /\ engine = "Treap" /\ drain = Free /\ probe = Unobserved
    /\ random \in {Seeded(stream) : stream \in [1..MaxDraws -> 0..MaxPriority]}

\* random.randint(0, self.max_priority) on the shared generator.
randint(g) == g.stream[g.pos + 1]

\* insert(value) of this instance; the generator is called unless the key is a
\* duplicate.
SharedInsert ==
    /\ engine = "Treap" /\ WithinBudget
    /\ \E self \in {Self}, v \in TreapKeys :
        /\ Treap_contains(self, v).ret \/ random.pos < MaxDraws
        /\ \E drawn \in {IF random.pos < MaxDraws THEN randint(random) ELSE NoPriority} :
           \E t \in {Treap_insert(self, v, drawn)} :
            /\ Return(t, "insert", v \in present)
            /\ random' = [random EXCEPT
                              !.pos = @ + t.draws, !.own = @ + t.draws,
                              !.made = @ + (IF t.ret THEN 1 ELSE 0),
                              !.last = IF t.draws > 0 THEN drawn ELSE @]
        /\ present' = present \cup {v}
    /\ drain' = drain
    /\ probe' = Unobserved

\* insert(value) of a new key on another Treap instance of the process: one call
\* of random.randint, and nothing of this instance is touched.
OtherInsert ==
    /\ engine = "Treap" /\ random.pos < MaxDraws
    /\ random' = [random EXCEPT !.pos = @ + 1]
    /\ UNCHANGED <<engine, root, value, parent, left, right, height, color, priority,
                   rotations_insert, rotations_delete, present, lastOp, drain>>
    /\ probe' = Unobserved

NextShared ==
    \/ SharedInsert \/ OtherInsert
    \/ TreapDelete \/ TreapContains \/ TreapValidate \/ ResetMetrics
SpecShared == InitShared /\ [][NextShared]_vars

\* The same process with this Treap as the only caller of random, inserting and
\* deleting.
NextSeeded == SharedInsert \/ TreapDelete \/ ResetMetrics
SpecSeeded == InitShared /\ [][NextSeeded]_vars

\* ---------------------------------------------------------------- observers
\* The node of the tree that holds v (None when there is none) and the in-order
\* successor of node z: the node with the least key above z's.
Holder(t, v) ==
    IF \E n \in Live(t) : t.value[n] = v THEN CHOOSE n \in Live(t) : t.value[n] = v ELSE None

Successor(t, z) ==
    CHOOSE y \in Live(t) :
        /\ StrLess(t.value[z], t.value[y])
        /\ \A m \in Live(t) : StrLess(t.value[z], t.value[m]) => ~StrLess(t.value[m], t.value[y])

\* What RBTree.delete(v) did to the Node objects: t0 is the instance at the call,
\* t1 at the return; z is the node that held v, y the node taken out of its
\* place (z itself, or z's successor when z has two children) and s the instance
\* between the replacement and the fixup.  entered is what _delete_fixup found at
\* its entry (x, x.parent, whether x.parent's link names x), slot the node above
\* the place y was taken from and what its link to that place holds in s,
\* siblings the nodes read as w, cases the passes of the loop (0) and the cases
\* taken in them.
RB_delete_observed(t0, v, t1) ==
    LET z == Holder(t0, v) IN
    IF z = None THEN [kind |-> "RB.delete", found |-> FALSE]
    ELSE
        LET two == t0.left[z] # nil /\ t0.right[z] # nil
            y == IF two THEN Successor(t0, z) ELSE z
            zp == t0.parent[z]
            \* the node above the place y was taken from, once z is replaced
            above == IF ~two THEN zp ELSE IF t0.parent[y] = z THEN y ELSE t0.parent[y]
            entry == SelectSeq(t1.trace, LAMBDA e : e[1] = "fixup")
            siblings == SelectSeq(t1.trace, LAMBDA e : e[1] = "sibling")
            passes == SelectSeq(t1.trace, LAMBDA e : e[1] \in {"iter", "case"})
        IN \* bound once, for the fields that look at s
           The({[kind |-> "RB.delete", found |-> TRUE, two |-> two,
                 target_linked |-> z \in Live(t1),
                 target_holds_successor_key |-> t1.value[z] = t0.value[y],
                 successor_linked |-> y \in Live(t1),
                 successor_key_kept |-> t1.value[y] = t0.value[y],
                 only_target_unlinked |-> Live(t1) = Live(t0) \ {z},
                 in_place |-> /\ s.parent[y] = zp
                              /\ IF zp = nil THEN s.root = y
                                 ELSE IF t0.left[zp] = z THEN s.left[zp] = y
                                 ELSE s.right[zp] = y,
                 left_subtree |-> /\ s.left[y] = t0.left[z]
                                  /\ s.parent[t0.left[z]] = y
                                  /\ \A n \in Reach(t0, t0.left[z], NumKeys + 2) :
                                         s.left[n] = t0.left[n] /\ s.right[n] = t0.right[n],
                 color_taken |-> s.color[y] = t0.color[z],
                 key_kept |-> s.value[y] = t0.value[y],
                 colors_kept |-> \A n \in Cells \ {y} : s.color[n] = t0.color[n],
                 recoloured |-> t0.color[y] # t0.color[z],
                 removed_color |-> t0.color[y],
                 fixup |-> t1.fixup,
                 successor_direct |-> two /\ t0.parent[y] = z,
                 entered |-> [e \in {"x", "parent", "named"} |->
                                IF entry = <<>> THEN 0
                                ELSE IF e = "x" THEN entry[1][2]
                                ELSE IF e = "parent" THEN entry[1][3] ELSE entry[1][4]],
                 slot |-> [above |-> above,
                           holds |-> IF above = nil THEN s.root
                                     ELSE IF ~two /\ t0.right[zp] = z THEN s.right[above]
                                     ELSE IF two /\ above = y THEN s.right[above]
                                     ELSE s.left[above]],
                 siblings |-> [i \in 1..Len(siblings) |-> siblings[i][2]],
                 sentinel_kept |-> /\ t1.color[nil] = BLACK
                                   /\ t1.left[nil] = t0.left[nil]
                                   /\ t1.right[nil] = t0.right[nil],
                 cases |-> [i \in 1..Len(passes) |->
                              IF passes[i][1] = "iter" THEN 0 ELSE passes[i][2]],
                 rotations |-> t1.rotations_delete - t0.rotations_delete] :
                s \in {RB_delete_splice(t0, z).s}})

RBDeleteObserved ==
    /\ engine = "RB" /\ WithinBudget
    /\ \E self \in {Self}, v \in Keys : \E t \in {RB_delete(self, v)} :
        /\ Return(t, "delete", v \in present)
        /\ present' = present \ {v}
        /\ probe' = RB_delete_observed(self, v, t)
    /\ UNCHANGED <<drain, random>>

\* What RBTree.insert(v) did: the passes of _insert_fixup that recoloured and
\* the rotations.
RB_insert_observed(t0, v, t1) ==
    [kind |-> "RB.insert", inserted |-> t1.ret,
     recolourings |-> Len(SelectSeq(t1.trace, LAMBDA e : e[1] = "recolor")),
     last_recoloured |-> t1.trace # <<>> /\ t1.trace[Len(t1.trace)][1] = "recolor",
     rotations |-> t1.rotations_insert - t0.rotations_insert]

NextRBObserved == RBInsert \/ RBDeleteObserved \/ ResetMetrics

\* What AVLTree.delete(v) did to the Node objects: z is the node that held v and
\* y its in-order successor when z has two children.
AVL_delete_observed(t0, v, t1) ==
    LET z == Holder(t0, v) IN
    IF z = None THEN [kind |-> "AVL.delete", found |-> FALSE]
    ELSE
        LET two == t0.left[z] # None /\ t0.right[z] # None
            y == IF two THEN Successor(t0, z) ELSE z
            zp == t0.parent[z]
        IN [kind |-> "AVL.delete", found |-> TRUE, two |-> two,
            target_linked |-> z \in Live(t1),
            target_holds_successor_key |-> t1.value[z] = t0.value[y],
            same_position |-> /\ t1.parent[z] = zp
                              /\ IF zp = None THEN t1.root = z
                                 ELSE IF t0.left[zp] = z THEN t1.left[zp] = z
                                 ELSE t1.right[zp] = z,
            successor_linked |-> y \in Live(t1),
            successor_leftmost |-> two /\ y = AVL_leftmost(t0, t0.right[z]),
            only_successor_unlinked |-> Live(t1) = Live(t0) \ {y},
            successor_one_child |-> t0.left[y] = None \/ t0.right[y] = None,
            rebalanced |-> t1.rebalanced,
            rotations |-> t1.rotations_delete - t0.rotations_delete]

\* The nodes a search for v passes in t, from cur down.
RECURSIVE SearchPath(_, _, _)
SearchPath(t, cur, v) ==
    IF cur = None \/ t.value[cur] = v THEN 0
    ELSE 1 + SearchPath(t, IF StrLess(v, t.value[cur]) THEN t.left[cur] ELSE t.right[cur], v)

\* What AVLTree.insert(v) did: at how many nodes it rebalanced, how many
\* rotations it counted, how many nodes the walk to the root visited and how
\* many ancestors the new node had.
AVL_insert_observed(t0, v, t1) ==
    [kind |-> "AVL.insert", inserted |-> t1.ret,
     rebalanced |-> t1.rebalanced,
     rotations |-> t1.rotations_insert - t0.rotations_insert,
     walked |-> t1.steps,
     ancestors |-> SearchPath(t0, t0.root, v)]

AVLInsertObserved ==
    /\ engine = "AVL" /\ WithinBudget
    /\ \E self \in {Self}, v \in Keys : \E t \in {AVL_insert(self, v)} :
        /\ Return(t, "insert", v \in present)
        /\ present' = present \cup {v}
        /\ probe' = AVL_insert_observed(self, v, t)
    /\ UNCHANGED <<drain, random>>

AVLDeleteObserved ==
    /\ engine = "AVL" /\ WithinBudget
    /\ \E self \in {Self}, v \in Keys : \E t \in {AVL_delete(self, v)} :
        /\ Return(t, "delete", v \in present)
        /\ present' = present \ {v}
        /\ probe' = AVL_delete_observed(self, v, t)
    /\ UNCHANGED <<drain, random>>

NextAVLObserved == AVLInsertObserved \/ AVLDeleteObserved \/ ResetMetrics

\* The rotations of a call's trace.
Rotations(t) == SelectSeq(t.trace, LAMBDA e : e[1] \in {"left", "right"})

\* What Treap.delete(v) did: for each rotation of the node z that held v, whether
\* z was the pivot, and for each one made while z had two children, its
\* direction and the priorities of z's left and right child then.
Treap_delete_observed(t0, v, t1) ==
    LET z == Holder(t0, v)
        rot == Rotations(t1)
        both == SelectSeq(rot, LAMBDA e : e[4] # None)
    IN IF z = None THEN [kind |-> "Treap.delete", found |-> FALSE]
       ELSE [kind |-> "Treap.delete", found |-> TRUE,
             target_rotated |-> \A i \in 1..Len(rot) : rot[i][2] = z,
             choices |-> [i \in 1..Len(both) |->
                            IF both[i][1] = "right"
                            THEN <<"right", t0.priority[both[i][3]], t0.priority[both[i][4]]>>
                            ELSE <<"left", t0.priority[both[i][4]], t0.priority[both[i][3]]>>],
             rotations |-> t1.rotations_delete - t0.rotations_delete]

\* The node a new key v is hung under: of the nodes holding the next smaller and
\* the next greater key, the one whose link towards v is free.
BSTParent(t, v) ==
    LET below == {n \in Live(t) : StrLess(t.value[n], v)}
        above == {n \in Live(t) : StrLess(v, t.value[n])}
        pred == IF below = {} THEN None
                ELSE CHOOSE n \in below : \A m \in below : ~StrLess(t.value[n], t.value[m])
        succ == IF above = {} THEN None
                ELSE CHOOSE n \in above : \A m \in above : ~StrLess(t.value[m], t.value[n])
    IN IF pred # None /\ t.right[pred] = None THEN pred ELSE succ

\* What Treap.insert(v) did with the priority `drawn`: n is the new node.
Treap_insert_observed(t0, v, drawn, t1) ==
    LET n == Holder(t1, v)
        rot == Rotations(t1)
        par == BSTParent(t0, v)
    IN IF ~t1.ret THEN [kind |-> "Treap.insert", inserted |-> FALSE, rotations |-> Len(rot)]
       ELSE [kind |-> "Treap.insert", inserted |-> TRUE,
             drawn |-> drawn,
             new_promoted |-> \A i \in 1..Len(rot) : rot[i][3] = n,
             pivots_lower |-> \A i \in 1..Len(rot) : t0.priority[rot[i][2]] < drawn,
             stopped |-> t1.parent[n] = None \/ t1.priority[t1.parent[n]] >= drawn,
             at_root |-> t1.parent[n] = None,
             parent_priority |-> IF par = None THEN NoPriority ELSE t0.priority[par],
             counted |-> t1.rotations_insert - t0.rotations_insert,
             rotations |-> Len(rot)]

TreapInsertObserved ==
    /\ engine = "Treap" /\ WithinBudget
    /\ \E self \in {Self}, v \in TreapKeys, drawn \in 0..MaxPriority :
        \E t \in {Treap_insert(self, v, drawn)} :
        /\ Return(t, "insert", v \in present)
        /\ present' = present \cup {v}
        /\ probe' = Treap_insert_observed(self, v, drawn, t)
    /\ UNCHANGED <<drain, random>>

TreapDeleteObserved ==
    /\ engine = "Treap" /\ WithinBudget
    /\ \E self \in {Self}, v \in TreapKeys : \E t \in {Treap_delete(self, v)} :
        /\ Return(t, "delete", v \in present)
        /\ present' = present \ {v}
        /\ probe' = Treap_delete_observed(self, v, t)
    /\ UNCHANGED <<drain, random>>

NextTreapObserved == TreapInsertObserved \/ TreapDeleteObserved \/ ResetMetrics

\* The tests' inorder_values(root) on an instance record: the values an in-order
\* traversal from n meets.
RECURSIVE inorder_of(_, _, _)
inorder_of(t, n, fuel) ==
    IF n \in Ends \/ fuel = 0 THEN <<>>
    ELSE inorder_of(t, t.left[n], fuel - 1) \o <<t.value[n]>> \o inorder_of(t, t.right[n], fuel - 1)

\* self._rotate_left(n) / self._left_rotate(n) and their mirror images, called
\* on a node of the tree outside insert.
rotate(t, dir, n) ==
    IF engine = "AVL" THEN
        (IF dir = "left" THEN AVL_rotate_left(t, n, FALSE) ELSE AVL_rotate_right(t, n, FALSE))
    ELSE IF engine = "RB" THEN
        (IF dir = "left" THEN RB_left_rotate(t, n, FALSE) ELSE RB_right_rotate(t, n, FALSE))
    ELSE (IF dir = "left" THEN Treap_rotate_left(t, n, FALSE) ELSE Treap_rotate_right(t, n, FALSE))

\* What a rotation at pivot n did: c is the child it promotes, inner the subtree
\* of c that changes sides, p the pivot's parent before the call.
rotation_observed(t0, dir, n, t1) ==
    LET absent == IF engine = "RB" THEN nil ELSE None
        c == IF dir = "left" THEN t0.right[n] ELSE t0.left[n]
        inner == IF dir = "left" THEN t0.left[c] ELSE t0.right[c]
        outer == IF dir = "left" THEN t0.right[c] ELSE t0.left[c]
        other == IF dir = "left" THEN t0.left[n] ELSE t0.right[n]
        p == t0.parent[n]
    IN [kind |-> "rotation", dir |-> dir,
        was_root |-> p = absent,
        displaced |-> inner # absent,
        inorder_kept |-> inorder_of(t1, t1.root, NumKeys + 2) = inorder_of(t0, t0.root, NumKeys + 2),
        nodes_kept |-> Live(t1) = Live(t0),
        reattached |-> /\ IF p = absent THEN t1.root = c
                          ELSE IF t0.left[p] = n THEN t1.left[p] = c /\ t1.right[p] = t0.right[p]
                          ELSE t1.right[p] = c /\ t1.left[p] = t0.left[p]
                       /\ p # absent => t1.root = t0.root,
        parents |-> /\ t1.parent[c] = p
                    /\ t1.parent[n] = c
                    /\ inner # absent => t1.parent[inner] = n,
        children |-> IF dir = "left"
                     THEN /\ t1.left[c] = n /\ t1.right[c] = outer
                          /\ t1.left[n] = other /\ t1.right[n] = inner
                     ELSE /\ t1.right[c] = n /\ t1.left[c] = outer
                          /\ t1.right[n] = other /\ t1.left[n] = inner,
        others_kept |-> \A m \in Live(t0) \ {n, c, p, inner} :
                            /\ t1.left[m] = t0.left[m] /\ t1.right[m] = t0.right[m]
                            /\ t1.parent[m] = t0.parent[m],
        counted |-> t1.rotations_insert - t0.rotations_insert]

\* A caller that builds a tree through insert and then calls one rotation
\* primitive on one of its nodes.
Rotated == [phase |-> "rotated", filled |-> {}]
\* The keys that caller draws from: one more for the Treap than TreapKeys, for a
\* pivot below the root with a grandchild.
RotationKeys ==
    IF engine = "Treap" THEN {str(i) : i \in FirstKey..(FirstKey + NumKeys - 2)} ELSE Keys

PlainInsert ==
    /\ drain.phase = "free" /\ WithinBudget
    /\ \E self \in {Self}, v \in RotationKeys, drawn \in 0..MaxPriority :
        /\ engine = "Treap" \/ drawn = 0
        /\ Return(insert(self, v, drawn), "insert", v \in present)
        /\ present' = present \cup {v}
    /\ UNCHANGED <<drain, random>>
    /\ probe' = Unobserved

\* The primitive is called on a node that has the child to promote.
DirectRotation ==
    /\ drain.phase \in {"free", "built"}
    /\ \E self \in {Self}, dir \in {"left", "right"} : \E n \in Live(self) :
        /\ (IF dir = "left" THEN self.right[n] ELSE self.left[n]) \notin Ends
        /\ \E t \in {rotate(self, dir, n)} :
            /\ Return([t EXCEPT !.ret = TRUE], "rotate", FALSE)
            /\ probe' = rotation_observed(self, dir, n, t)
    /\ drain' = Rotated
    /\ UNCHANGED <<present, random>>

\* AVLTree() or RBTree(), as a record.
Fresh(e) ==
    [root |-> IF e = "RB" THEN nil ELSE None,
     value |-> [n \in Cells |-> NoValue],
     parent |-> [n \in Cells |-> IF n = nil /\ e = "RB" THEN nil ELSE None],
     left |-> [n \in Cells |-> IF n = nil /\ e = "RB" THEN nil ELSE None],
     right |-> [n \in Cells |-> IF n = nil /\ e = "RB" THEN nil ELSE None],
     height |-> [n \in Cells |-> 1],
     color |-> [n \in Cells |-> IF n = nil /\ e = "RB" THEN BLACK ELSE NoColor],
     priority |-> [n \in Cells |-> NoPriority],
     rotations_insert |-> 0, rotations_delete |-> 0,
     ret |-> FALSE, guard |-> FALSE, steps |-> 0, stuck |-> FALSE,
     fixup |-> FALSE, rebalanced |-> 0, trace |-> <<>>, draws |-> 0]

\* BaseDataStructure.__init__(values): `for v in values: self.insert(v)`.
RECURSIVE init_values(_, _, _)
init_values(e, t, values) ==
    IF values = <<>> THEN t
    ELSE LET called == [t EXCEPT !.steps = 0, !.rebalanced = 0, !.trace = <<>>, !.fixup = FALSE]
             t1 == IF e = "AVL" THEN AVL_insert(called, Head(values))
                   ELSE RB_insert(called, Head(values))
         IN init_values(e, t1, Tail(values))

\* The keys from the smallest to the largest, and the lists the constructors are
\* given, as the ranks of their keys: AVLTree gets a prefix of the level order of
\* the sparsest tree of height 5, RBTree a prefix of one of three lists.
AllKeysAscending == Ascending(AllKeys)
AVLRanks == {<<8, 5, 11, 3, 7, 10, 12, 2, 4, 6, 9, 1>>}
RBRanks == {<<2, 1, 10, 6, 11, 4, 3, 7, 5, 9>>, <<1, 2, 4, 5, 6, 3>>, <<1, 2, 3, 4, 5, 6, 7>>}

\* A test's calls on such a tree: drain.filled lists the keys it passed.
Built == [phase |-> "built", filled |-> <<>>]

\* e(values) for a list of distinct keys.
Constructor(e) ==
    /\ engine = e /\ random = Unseeded /\ probe = Unobserved
    /\ \E ranks \in (IF e = "AVL" THEN AVLRanks ELSE RBRanks) : \E n \in 0..Len(ranks) :
        \E values \in {[i \in 1..n |-> AllKeysAscending[ranks[i]]]} :
        \E t \in {Collect(init_values(e, Fresh(e), values))} :
            /\ root = t.root
            /\ value = t.value
            /\ parent = t.parent
            /\ left = t.left
            /\ right = t.right
            /\ height = t.height
            /\ color = t.color
            /\ priority = t.priority
            /\ rotations_insert = t.rotations_insert
            /\ rotations_delete = t.rotations_delete
            /\ present = {values[i] : i \in 1..n}
            /\ lastOp = [op |-> "init", was |-> FALSE, ret |-> FALSE,
                         guard |-> t.guard, stuck |-> t.stuck]

BuiltInsert ==
    /\ drain.phase = "built" /\ Len(drain.filled) < BuiltCalls
    /\ \E self \in {Self}, v \in AllKeys : \E t \in {insert(self, v, 0)} :
        /\ Return(t, "insert", v \in present)
        /\ present' = present \cup {v}
        /\ probe' = IF engine = "AVL" THEN AVL_insert_observed(self, v, t)
                     ELSE RB_insert_observed(self, v, t)
        /\ drain' = [drain EXCEPT !.filled = Append(@, v)]
    /\ UNCHANGED random

BuiltDelete ==
    /\ drain.phase = "built" /\ Len(drain.filled) < BuiltCalls
    /\ \E self \in {Self}, v \in AllKeys : \E t \in {delete(self, v)} :
        /\ Return(t, "delete", v \in present)
        /\ present' = present \ {v}
        /\ probe' = IF engine = "AVL" THEN AVL_delete_observed(self, v, t)
                     ELSE RB_delete_observed(self, v, t)
        /\ drain' = [drain EXCEPT !.filled = Append(@, v)]
    /\ UNCHANGED random

NextBuilt == BuiltInsert \/ BuiltDelete
InitAVLBuilt == Constructor("AVL") /\ drain = Built
InitRBBuilt == Constructor("RB") /\ drain = Built
SpecAVLBuilt == InitAVLBuilt /\ [][NextBuilt]_vars
SpecRBBuilt == InitRBBuilt /\ [][NextBuilt]_vars

\* The rotation primitives are called on the trees of an empty instance's
\* callers and on AVLTree(values) and RBTree(values).
InitRotation == Init \/ InitAVLBuilt \/ InitRBBuilt
NextRotation == PlainInsert \/ DirectRotation
SpecRotation == InitRotation /\ [][NextRotation]_vars

\* One engine at a time.
InitAVL == Init /\ engine = "AVL"
NextAVL == AVLInsert \/ AVLDelete \/ AVLContains \/ AVLValidate \/ ResetMetrics
SpecAVL == InitAVL /\ [][NextAVL]_vars
SpecAVLObserved == InitAVL /\ [][NextAVLObserved]_vars

InitRB == Init /\ engine = "RB"
NextRB == RBInsert \/ RBDelete \/ RBContains \/ RBValidate \/ ResetMetrics
SpecRB == InitRB /\ [][NextRB]_vars
SpecRBObserved == InitRB /\ [][NextRBObserved]_vars

InitTreap == Init /\ engine = "Treap"
NextTreap == TreapInsert \/ TreapDelete \/ TreapContains \/ TreapValidate \/ ResetMetrics
SpecTreap == InitTreap /\ [][NextTreap]_vars
SpecTreapObserved == InitTreap /\ [][NextTreapObserved]_vars

\* ------------------------------------------------------------------ properties
\* Deepest path the walkers below follow: no tree of the model is that deep.
Depth == NumKeys + 2

\* The nodes linked under n in the current state.
RECURSIVE Under(_, _)
Under(n, fuel) ==
    IF n \in Ends \/ fuel = 0 THEN {}
    ELSE {n} \cup Under(left[n], fuel - 1) \cup Under(right[n], fuel - 1)

TreeNodes == Under(root, Depth)

\* The tests' inorder_values(root): the values met by an in-order traversal.
RECURSIVE InorderFrom(_, _)
InorderFrom(n, fuel) ==
    IF n \in Ends \/ fuel = 0 THEN <<>>
    ELSE InorderFrom(left[n], fuel - 1) \o <<value[n]>> \o InorderFrom(right[n], fuel - 1)

inorder_values == InorderFrom(root, Depth)

\* Python's sorted(S) for a set of strings.
RECURSIVE sorted(_)
sorted(S) ==
    IF S = {} THEN <<>>
    ELSE LET m == CHOOSE x \in S : \A y \in S \ {x} : StrLess(x, y)
         IN <<m>> \o sorted(S \ {m})

\* C1: in every engine, after any sequence of insert and delete calls from the
\* empty tree, the in-order traversal from root is the ascending list, without
\* duplicates, of the keys inserted and not deleted since.
C1_InorderIsSortedReference == inorder_values = sorted(present)

\* C1 happens: a delete has just removed a key and three or more keys remain.
C1_Witness ==
    /\ lastOp.op = "delete" /\ lastOp.ret
    /\ Len(inorder_values) >= 3

\* C2: the results agree with the reference set: insert(v) is true exactly when v
\* was absent, delete(v) exactly when v was present, contains(v) exactly when v
\* is present.
C2_ResultsAgreeWithReference ==
    /\ lastOp.op = "insert" => lastOp.ret = ~lastOp.was
    /\ lastOp.op = "delete" => lastOp.ret = lastOp.was
    /\ lastOp.op = "contains" => lastOp.ret = lastOp.was

\* C2 happens: a lookup of a key that is not in a tree of two or more keys (it
\* was never inserted, or was deleted) has answered.
C2_Witness ==
    /\ lastOp.op = "contains" /\ ~lastOp.was /\ ~lastOp.ret
    /\ Cardinality(present) >= 2

\* The numbers of BLACK nodes on the paths from n down to the sentinel (n included,
\* the sentinel not).
RECURSIVE BlackCounts(_, _)
BlackCounts(n, fuel) ==
    IF n = nil THEN {0}
    ELSE IF n \in Ends \/ fuel = 0 THEN {}
    ELSE {c + (IF color[n] = BLACK THEN 1 ELSE 0) :
             c \in BlackCounts(left[n], fuel - 1) \cup BlackCounts(right[n], fuel - 1)}

\* C3: after every RBTree.insert and RBTree.delete, every path from a node down to
\* the sentinel holds the same number of BLACK nodes.
C3_EqualBlackHeight ==
    engine = "RB" => \A n \in TreeNodes : Cardinality(BlackCounts(n, Depth)) = 1

\* C3 happens: a delete that needed its fixup to rotate has returned, leaving a tree.
C3_Witness ==
    /\ engine = "RB" /\ lastOp.op = "delete" /\ lastOp.ret
    /\ rotations_delete >= 1 /\ Cardinality(TreeNodes) >= 3

\* C4: after every RBTree.insert and RBTree.delete, no RED node has a RED child.
C4_NoRedRed ==
    engine = "RB" =>
        \A n \in TreeNodes : color[n] = RED => color[left[n]] # RED /\ color[right[n]] # RED

\* C4 happens: an insert whose fixup rotated has returned and the tree holds a RED node.
C4_Witness ==
    /\ engine = "RB" /\ lastOp.op = "insert" /\ lastOp.ret
    /\ rotations_insert >= 1
    /\ \E n \in TreeNodes : color[n] = RED

\* C5: after every RBTree.insert and RBTree.delete, the root of a non-empty tree is BLACK.
C5_RootBlack == engine = "RB" /\ root # nil => color[root] = BLACK

\* C5 happens: the insert of a fourth key has recoloured the root's two children
\* BLACK and the root RED, and has returned.
C5_Witness ==
    /\ engine = "RB" /\ lastOp.op = "insert" /\ lastOp.ret
    /\ Cardinality(TreeNodes) = 4 /\ rotations_insert = 0
    /\ left[root] # nil /\ color[left[root]] = BLACK
    /\ right[root] # nil /\ color[right[root]] = BLACK

\* The height of the subtree under n, counted from the links (not the fields).
RECURSIVE TrueHeight(_, _)
TrueHeight(n, fuel) ==
    IF n \in Ends \/ fuel = 0 THEN 0
    ELSE 1 + Max(TrueHeight(left[n], fuel - 1), TrueHeight(right[n], fuel - 1))

\* C6: after every AVLTree.insert and AVLTree.delete, every node's balance factor
\* (true height of the left subtree minus that of the right) is -1, 0 or 1.
C6_AVLBalanced ==
    engine = "AVL" =>
        \A n \in TreeNodes :
            TrueHeight(left[n], Depth) - TrueHeight(right[n], Depth) \in {-1, 0, 1}

\* C6 happens: a delete that had to rotate has returned.
C6_Witness ==
    /\ engine = "AVL" /\ lastOp.op = "delete" /\ lastOp.ret
    /\ rotations_delete >= 1 /\ root \in TreeNodes

\* The height field of a child, an absent child counting as 0.
FieldHeight(n) == IF n = None THEN 0 ELSE height[n]

\* C7: after every AVLTree.insert and AVLTree.delete, every node's height field
\* is 1 for a leaf and 1 + max of its children's height fields otherwise.
C7_HeightField ==
    engine = "AVL" =>
        \A n \in TreeNodes : height[n] = 1 + Max(FieldHeight(left[n]), FieldHeight(right[n]))

\* C7 happens: an insert that rotated has returned a tree of height 3.
C7_Witness ==
    /\ engine = "AVL" /\ lastOp.op = "insert" /\ lastOp.ret
    /\ rotations_insert >= 1 /\ root \in TreeNodes /\ height[root] = 3

\* C8: after every Treap.insert and Treap.delete, each existing child's priority
\* is at most its parent's, for every choice of the drawn priorities, equal
\* ones included.
C8_TreapHeap ==
    engine = "Treap" =>
        \A n \in TreeNodes :
            /\ left[n] # None => priority[left[n]] <= priority[n]
            /\ right[n] # None => priority[right[n]] <= priority[n]

\* C8 happens: a delete has rotated a node with two children down to a leaf (two
\* rotations) and removed it, in a tree where a node and its child have the same
\* priority.
C8_Witness ==
    /\ engine = "Treap" /\ lastOp.op = "delete" /\ lastOp.ret /\ rotations_delete >= 2
    /\ \E n \in TreeNodes :
          \/ left[n] # None /\ priority[left[n]] = priority[n]
          \/ right[n] # None /\ priority[right[n]] = priority[n]

\* C9: in every engine, after every insert and delete, each real child's parent
\* link is the node it hangs under, and the root's parent is absent (None, or the
\* sentinel in RBTree).
C9_ParentLinks ==
    /\ \A n \in TreeNodes :
          /\ left[n] \notin {None, nil} => parent[left[n]] = n
          /\ right[n] \notin {None, nil} => parent[right[n]] = n
    /\ root \notin {None, nil} => parent[root] = (IF engine = "RB" THEN nil ELSE None)

\* C9 happens: a delete that rotated has returned and left a root with two children.
C9_Witness ==
    /\ lastOp.op = "delete" /\ lastOp.ret /\ rotations_delete >= 1
    /\ root \in TreeNodes /\ left[root] \in TreeNodes /\ right[root] \in TreeNodes

\* C10: in every engine, insert(v) with v present returns false and changes
\* nothing: root, every node's value, links, height, color and priority, and both
\* rotation counters.
C10_DuplicateInsertChangesNothing ==
    [][lastOp'.op = "insert" /\ lastOp'.was =>
          /\ ~lastOp'.ret
          /\ UNCHANGED <<root, value, parent, left, right, height, color, priority,
                         rotations_insert, rotations_delete>>]_vars

\* C10 happens: an insert of a key already in a tree of three or more keys has returned.
C10_Witness ==
    /\ lastOp.op = "insert" /\ lastOp.was
    /\ Cardinality(TreeNodes) >= 3

\* C11: in every engine, delete(v) of a key that is not in the tree (the empty tree
\* included) returns false and leaves everything as it was: root, every node's
\* fields, the fields of RBTree's sentinel, and both rotation counters.
C11_AbsentDeleteChangesNothing ==
    [][lastOp'.op = "delete" /\ ~lastOp'.was =>
         /\ ~lastOp'.ret
         /\ UNCHANGED <<root, value, parent, left, right, height, color, priority,
                        rotations_insert, rotations_delete>>]_vars

\* An absent key was deleted from an RBTree whose sentinel's parent link had been
\* written by an earlier delete.
C11_Witness ==
    /\ lastOp.op = "delete" /\ ~lastOp.was /\ ~lastOp.ret
    /\ engine = "RB" /\ parent[nil] # nil
    /\ Cardinality(TreeNodes) >= 3

\* C12: in every engine, contains(v), for v present or absent, changes nothing:
\* root, every node's links and fields and both rotation counters are as before
\* (so no rotation was performed).
C12_ContainsChangesNothing ==
    [][lastOp'.op = "contains" =>
         UNCHANGED <<root, value, parent, left, right, height, color, priority,
                     rotations_insert, rotations_delete>>]_vars

\* contains found a key that is not at the root of a Treap.
C12_Witness ==
    /\ lastOp.op = "contains" /\ lastOp.ret
    /\ engine = "Treap" /\ Cardinality(TreeNodes) >= 3
    /\ \E n \in TreeNodes : parent[n] # None /\ left[n] # None

\* C13: in every engine, after any set of distinct keys was inserted in any order
\* and then every one of them deleted in any order, every delete has returned
\* true and the tree is empty: no node is linked, root is None for AVLTree and
\* Treap and the sentinel for RBTree.
C13_FullDrain ==
    drain.phase = "drain" =>
        /\ lastOp.op = "delete" => lastOp.ret
        /\ present = {} =>
              /\ root = (IF engine = "RB" THEN nil ELSE None)
              /\ TreeNodes = {}

\* Every key of the model was filled into an RBTree and the last of them deleted.
C13_Witness ==
    /\ drain.phase = "drain" /\ drain.filled = Keys /\ present = {}
    /\ engine = "RB" /\ lastOp.op = "delete" /\ lastOp.ret

\* C14: in every engine a rotation is counted for the public call that caused it:
\* delete leaves rotations_insert as it was, insert (the constructor's inserts are
\* insert calls on the new instance) leaves rotations_delete as it was, and
\* contains and validate leave both as they were.
C14_RotationsAttributed ==
    [][/\ lastOp'.op = "delete" => rotations_insert' = rotations_insert
       /\ lastOp'.op = "insert" => rotations_delete' = rotations_delete
       /\ lastOp'.op \in {"contains", "validate"} =>
             UNCHANGED <<rotations_insert, rotations_delete>>]_vars

\* A delete that rotated, called while rotations_insert was not zero.
C14_Witness ==
    /\ lastOp.op = "delete" /\ lastOp.ret
    /\ rotations_insert >= 1 /\ rotations_delete >= 1

\* C15: in every engine both counters are non-negative; insert, delete, contains
\* and validate never lower either of them; reset_metrics sets both to 0, so that
\* total_rotations is 0, and leaves the tree as it was.
C15_CountersMonotone ==
    /\ [](rotations_insert >= 0 /\ rotations_delete >= 0)
    /\ [][/\ lastOp'.op \in {"insert", "delete", "contains", "validate"} =>
               /\ rotations_insert' >= rotations_insert
               /\ rotations_delete' >= rotations_delete
          /\ lastOp'.op = "reset_metrics" =>
               /\ rotations_insert' = 0 /\ rotations_delete' = 0
               /\ total_rotations' = 0
               /\ UNCHANGED <<root, value, parent, left, right, height, color, priority>>]_vars

\* An RBTree insert, which rotates at most twice, has brought rotations_insert to
\* three: the counter was not zero when it was called.
C15_Witness ==
    /\ engine = "RB" /\ lastOp.op = "insert" /\ lastOp.ret
    /\ rotations_insert = 3

\* C16: in RBTree, after every public call, the sentinel holds no value and is
\* BLACK, whatever inserts and deletes came before, the deletes whose fixup
\* starts at the sentinel included.
C16_SentinelBlackAndEmpty ==
    engine = "RB" => value[nil] = NoValue /\ color[nil] = BLACK

\* A delete that rotated has returned, and the sentinel stood in for a removed
\* node: its parent link points into the tree.
C16_Witness ==
    /\ engine = "RB" /\ lastOp.op = "delete" /\ lastOp.ret
    /\ rotations_delete >= 1 /\ parent[nil] \in TreeNodes

\* C17, as claimed: in RBTree the sentinel is its own left child, right child and
\* parent in every state reached by inserts and deletes.
C17_SentinelOwnLinks ==
    engine = "RB" => left[nil] = nil /\ right[nil] = nil /\ parent[nil] = nil

\* C17, amended: in RBTree the sentinel is its own left and right child in every
\* state; its parent link is the sentinel after construction and is changed by
\* nothing but a delete that removes a node.
C17_SentinelChildLinks ==
    /\ engine = "RB" => parent[nil] = nil
    /\ [](engine = "RB" => left[nil] = nil /\ right[nil] = nil)
    /\ [][engine = "RB" /\ parent'[nil] # parent[nil] =>
             lastOp'.op = "delete" /\ lastOp'.ret]_vars

\* After a delete the sentinel's parent link points at a node that is no longer
\* in the tree.
C17_Witness ==
    /\ engine = "RB" /\ lastOp.op = "delete" /\ lastOp.ret
    /\ parent[nil] = Detached /\ left[nil] = nil /\ right[nil] = nil
    /\ Cardinality(TreeNodes) >= 2

\* C19: the priorities a Treap instance draws do not depend on what is done to
\* other Treap instances in between: its k-th draw is the k-th number of the
\* seeded sequence, as it is when the instance is the only one drawing.
C19_DrawsIndependentOfOtherInstances ==
    random.own >= 1 => random.last = random.stream[random.own]

\* C20: every node of a Treap has an integer priority in 0..max_priority, set
\* when insert creates the node: a node that is in the tree before and after a
\* call (the node of the same key) has the same priority after it as before.
C20_PriorityFixedAtCreation ==
    /\ [](engine = "Treap" => \A n \in TreeNodes : priority[n] \in 0..MaxPriority)
    /\ [][engine = "Treap" =>
             \A n \in TreeNodes : \A m \in TreeNodes' :
                 value'[m] = value[n] => priority'[m] = priority[n]]_vars

\* An insert has rotated its new node up past nodes that stay in the tree, and
\* the tree holds both a priority 0 and a priority MaxPriority.
C20_Witness ==
    /\ engine = "Treap" /\ lastOp.op = "insert" /\ lastOp.ret
    /\ rotations_insert >= 2
    /\ \E m, n \in TreeNodes : priority[m] = 0 /\ priority[n] = MaxPriority

\* C23: three distinct keys inserted in strictly descending order into an empty
\* AVLTree give the middle key at the root, the smallest as its left child and
\* the largest as its right child, both leaves, no parent of the root, and
\* rotations_insert = 1.
C23_DescendingInsertsRotateOnce ==
    /\ engine = "AVL" /\ drain.phase = "script" /\ Len(drain.filled) = 3
    /\ StrLess(drain.filled[2], drain.filled[1])
    /\ StrLess(drain.filled[3], drain.filled[2])
    => /\ root # None /\ value[root] = drain.filled[2] /\ parent[root] = None
       /\ left[root] # None /\ value[left[root]] = drain.filled[3]
       /\ right[root] # None /\ value[right[root]] = drain.filled[1]
       /\ left[left[root]] = None /\ right[left[root]] = None
       /\ left[right[root]] = None /\ right[right[root]] = None
       /\ rotations_insert = 1

\* "9", "8", "10" went in, in this order: as strings they are descending.
C23_Witness ==
    /\ engine = "AVL" /\ drain.phase = "script"
    /\ drain.filled = <<str(FirstKey + 1), str(FirstKey), str(FirstKey + 2)>>
    /\ lastOp.op = "validate" /\ lastOp.ret

\* C24: one AVLTree.insert rebalances at no more than one node of its walk, so
\* it counts 0 rotations, 1 (a single rotation) or 2 (a double rotation), and the
\* walk visits every ancestor of the new node up to the root all the same.
C24_OneRebalancePerInsert ==
    probe.kind = "AVL.insert" =>
        /\ probe.rebalanced \in {0, 1}
        /\ probe.rebalanced = 0 => probe.rotations = 0
        /\ probe.rebalanced = 1 => probe.rotations \in {1, 2}
        /\ probe.walked = (IF probe.inserted THEN probe.ancestors ELSE 0)

\* A double rotation two levels below the root, and the walk went on to the root.
C24_Witness ==
    /\ probe.kind = "AVL.insert" /\ probe.inserted
    /\ probe.rebalanced = 1 /\ probe.rotations = 2 /\ probe.walked = 3

\* Every value under n's left link is less than n's value and every value under
\* its right link is greater, for every node n of the tree.
SubtreesOrdered ==
    \A n \in TreeNodes :
        /\ \A m \in Under(left[n], Depth) : StrLess(value[m], value[n])
        /\ \A m \in Under(right[n], Depth) : StrLess(value[n], value[m])

\* C25, as claimed: AVLTree.validate succeeds exactly when every node's left
\* subtree holds only smaller values and its right subtree only greater ones,
\* every height field equals the height of its subtree, and every balance factor
\* is -1, 0 or 1.
C25_ValidateExact ==
    engine = "AVL" /\ lastOp.op = "validate" =>
        (lastOp.ret <=>
            /\ SubtreesOrdered
            /\ \A n \in TreeNodes : height[n] = TrueHeight(n, Depth)
            /\ \A n \in TreeNodes :
                   TrueHeight(left[n], Depth) - TrueHeight(right[n], Depth) \in {-1, 0, 1})

\* C26: RBTree.validate succeeds exactly when every value lies strictly between
\* the values of the ancestors it is left and right of, all paths from a node down
\* to the sentinel hold the same number of BLACK nodes, no RED node has a RED
\* child and the root of a non-empty tree is BLACK.
C26_ValidateExact ==
    engine = "RB" /\ lastOp.op = "validate" =>
        (lastOp.ret <=>
            /\ SubtreesOrdered
            /\ \A n \in TreeNodes : Cardinality(BlackCounts(n, Depth)) = 1
            /\ \A n \in TreeNodes :
                   color[n] = RED => color[left[n]] # RED /\ color[right[n]] # RED
            /\ root # nil => color[root] = BLACK)

\* validate has refused a tree of four nodes whose only fault is a value two
\* levels below the root that is on the wrong side of the root.
C26_Witness ==
    /\ engine = "RB" /\ lastOp.op = "validate" /\ ~lastOp.ret
    /\ Cardinality(TreeNodes) = 4 /\ color[root] = BLACK
    /\ \A n \in TreeNodes : Cardinality(BlackCounts(n, Depth)) = 1
    /\ \A n \in TreeNodes : color[n] = RED => color[left[n]] # RED /\ color[right[n]] # RED
    /\ \A n \in TreeNodes :
           /\ left[n] # nil => StrLess(value[left[n]], value[n])
           /\ right[n] # nil => StrLess(value[n], value[right[n]])
    /\ ~SubtreesOrdered

\* C27: in no engine and in no state reached by public calls is a rotation
\* primitive called on a node without the child it promotes: no call takes the
\* early return of _rotate_right, _rotate_left, _right_rotate or _left_rotate.
C27_RotationGuardsNeverTaken == ~lastOp.guard

\* Treap deletes have rotated three times since the counters were reset.
C27_Witness ==
    /\ engine = "Treap" /\ lastOp.op = "delete" /\ lastOp.ret /\ ~lastOp.guard
    /\ rotations_delete >= 3

\* C28: every public call returns: no loop of insert or delete (the fixups of
\* RBTree, the bubble-up and rotate-down of Treap, the walk to the root and the
\* recursive delete of AVLTree) is still running after MaxSteps iterations.
C28_CallsTerminate == ~lastOp.stuck

\* An RBTree delete whose fixup rotated twice has returned.
C28_Witness ==
    /\ engine = "RB" /\ lastOp.op = "delete" /\ lastOp.ret /\ ~lastOp.stuck
    /\ rotations_delete >= 2 /\ rotations_insert = 0

\* C21, as claimed: AVLTree.delete of a key whose node has two children leaves the
\* target node object where it was, holding the successor's key; the node that
\* is unlinked is the successor, the leftmost node of the target's right subtree,
\* which has at most one child.
C21_TargetStaysInPosition ==
    probe.kind = "AVL.delete" /\ probe.found /\ probe.two =>
        /\ probe.target_linked /\ probe.target_holds_successor_key
        /\ probe.same_position
        /\ ~probe.successor_linked /\ probe.only_successor_unlinked
        /\ probe.successor_leftmost /\ probe.successor_one_child

\* C21, amended: the target node object stays in the tree holding the
\* successor's key, and where it was unless the delete rotates; the node that is
\* unlinked is the successor, the leftmost node of the target's right subtree,
\* which has at most one child.
C21_TargetStaysInTree ==
    probe.kind = "AVL.delete" /\ probe.found /\ probe.two =>
        /\ probe.target_linked /\ probe.target_holds_successor_key
        /\ probe.rotations = 0 => probe.same_position
        /\ ~probe.successor_linked /\ probe.only_successor_unlinked
        /\ probe.successor_leftmost /\ probe.successor_one_child

\* A delete of a two-children node rotated that node out of its place.
C21_Witness ==
    /\ probe.kind = "AVL.delete" /\ probe.found /\ probe.two
    /\ probe.target_linked /\ ~probe.same_position /\ probe.rotations >= 1

\* C22, as claimed: RBTree.delete of a key whose node has two children leaves the
\* target node object in the tree, holding the successor's key, and unlinks the
\* successor node.
C22_TargetKeptSuccessorUnlinked ==
    probe.kind = "RB.delete" /\ probe.found /\ probe.two =>
        /\ probe.target_linked /\ probe.target_holds_successor_key
        /\ ~probe.successor_linked

\* C22, amended: RBTree.delete of a key whose node has two children unlinks the
\* target node object and nothing else; the successor node object stays in the
\* tree, with its own key.
C22_TargetUnlinkedSuccessorKept ==
    probe.kind = "RB.delete" /\ probe.found /\ probe.two =>
        /\ ~probe.target_linked /\ probe.only_target_unlinked
        /\ probe.successor_linked /\ probe.successor_key_kept

\* A node with two children was deleted from a tree of five nodes.
C22_Witness ==
    /\ probe.kind = "RB.delete" /\ probe.found /\ probe.two
    /\ Cardinality(TreeNodes) = NumKeys - 1

\* C29: RBTree.delete of a node z with two children puts the successor y where z
\* was: under z's former parent (or at the root), over z's former left subtree,
\* in z's former color and with y's own key; the replacement changes the color of
\* no other node.
C29_SuccessorTakesPlace ==
    probe.kind = "RB.delete" /\ probe.found /\ probe.two =>
        /\ probe.in_place /\ probe.left_subtree
        /\ probe.color_taken /\ probe.key_kept /\ probe.colors_kept

\* The successor had another color than the node it replaced.
C29_Witness ==
    /\ probe.kind = "RB.delete" /\ probe.found /\ probe.two
    /\ probe.recoloured /\ probe.in_place /\ probe.color_taken

\* C30: RBTree.delete calls the delete-fixup exactly when the node taken out of
\* its place (the target with at most one child, else its successor) was BLACK;
\* when it was RED the delete rotates nothing, rotations_delete stays as it was
\* and the tree has a BLACK root, no RED node with a RED child and equal black
\* counts on all paths.
C30_FixupExactlyForBlack ==
    probe.kind = "RB.delete" /\ probe.found =>
        /\ probe.fixup <=> probe.removed_color = BLACK
        /\ probe.removed_color = RED =>
              /\ probe.rotations = 0
              /\ C3_EqualBlackHeight /\ C4_NoRedRed /\ C5_RootBlack

\* A RED successor was taken out of its place, under a target with two children.
C30_Witness ==
    /\ probe.kind = "RB.delete" /\ probe.found /\ probe.two
    /\ probe.removed_color = RED /\ ~probe.fixup

\* C31: when Treap.delete rotates a target that has two children, it rotates
\* right only if the left child's priority is strictly greater than the right
\* child's; with equal priorities it rotates left (the right child is promoted).
C31_TiesRotateLeft ==
    probe.kind = "Treap.delete" /\ probe.found =>
        /\ probe.target_rotated
        /\ \A i \in 1..Len(probe.choices) :
               probe.choices[i][1] = "right" <=> probe.choices[i][2] > probe.choices[i][3]

\* A delete met two children of equal priority and rotated left.
C31_Witness ==
    /\ probe.kind = "Treap.delete" /\ probe.found
    /\ \E i \in 1..Len(probe.choices) :
           probe.choices[i][1] = "left" /\ probe.choices[i][2] = probe.choices[i][3]

\* C32: every rotation of Treap.insert promotes the new node over a parent of
\* strictly lower priority; the insert ends with the new node at the root or
\* under a parent of priority greater than or equal to its own, and rotates not
\* at all when the drawn priority is at most that of the node it was hung under.
C32_BubbleUpWhileStrictlyHigher ==
    probe.kind = "Treap.insert" /\ probe.inserted =>
        /\ probe.new_promoted /\ probe.pivots_lower /\ probe.stopped
        /\ probe.counted = probe.rotations
        /\ probe.drawn <= probe.parent_priority => probe.rotations = 0
        /\ probe.parent_priority # NoPriority /\ probe.drawn > probe.parent_priority
               => probe.rotations >= 1

\* An insert drew the priority of its parent-to-be and did not rotate; the tree
\* now holds three keys.
C32_Witness ==
    /\ probe.kind = "Treap.insert" /\ probe.inserted
    /\ probe.drawn = probe.parent_priority /\ probe.rotations = 0 /\ ~probe.at_root
    /\ Cardinality(present) >= 3

\* C38: a Treap.insert draws a priority exactly when it returns true: over any
\* sequence of inserts, duplicates among them, and deletes, the numbers
\* drawn are as many as the inserts that returned true, so the k-th key that goes
\* in gets the k-th number of the stream.
C38_DuplicatesDrawNothing ==
    /\ random.pos = random.made
    /\ random.made >= 1 => random.last = random.stream[random.made]

\* An insert of a key that is in the tree has returned false while the stream
\* still had numbers to give, after a key was deleted.
C38_Witness ==
    /\ engine = "Treap" /\ lastOp.op = "insert" /\ lastOp.was /\ ~lastOp.ret
    /\ random.made \in 1..(MaxDraws - 1)
    /\ Cardinality(present) < random.made

\* C33: an AVLTree.delete rebalances at every ancestor that needs it, possibly
\* at several of them: the rotations it counts are one or two for each node it
\* rebalanced, and afterwards the tree is ordered, every height field is right
\* and every balance factor is -1, 0 or 1.
C33_DeleteRebalancesEveryLevel ==
    probe.kind = "AVL.delete" /\ probe.found =>
        /\ probe.rotations >= probe.rebalanced
        /\ probe.rotations <= 2 * probe.rebalanced
        /\ SubtreesOrdered
        /\ \A n \in TreeNodes :
               /\ height[n] = TrueHeight(n, Depth)
               /\ TrueHeight(left[n], Depth) - TrueHeight(right[n], Depth) \in {-1, 0, 1}

\* A delete from a tree of twelve keys rebalanced at two ancestors.
C33_Witness ==
    /\ probe.kind = "AVL.delete" /\ probe.found
    /\ probe.rebalanced >= 2 /\ probe.rotations >= 2
    /\ Cardinality(TreeNodes) = BuiltKeys - 1

\* C36: an RBTree.insert performs at most 2 rotations however many passes of
\* the fixup loop recolour: no pass recolours after one that rotated.
C36_InsertRotatesAtMostTwice ==
    probe.kind = "RB.insert" =>
        /\ probe.rotations <= 2
        /\ probe.rotations >= 1 => ~probe.last_recoloured
        /\ ~probe.inserted => probe.rotations = 0 /\ probe.recolourings = 0

\* An insert into a tree of ten keys recoloured in one pass of the loop and
\* rotated twice in the next.
C36_Witness ==
    /\ probe.kind = "RB.insert" /\ probe.inserted
    /\ probe.recolourings >= 1 /\ probe.rotations = 2

\* C37: an RBTree.delete performs at most 3 rotations, one for each case 1, 3
\* and 4 its fixup takes, and a pass of the loop that takes case 1 and then
\* case 2 is the last pass.
C37_DeleteRotatesAtMostThrice ==
    probe.kind = "RB.delete" /\ probe.found =>
        /\ probe.rotations <= 3
        /\ probe.rotations = Cardinality({i \in 1..Len(probe.cases) : probe.cases[i] \in {1, 3, 4}})
        /\ \A i \in 1..(Len(probe.cases) - 1) :
               probe.cases[i] = 1 /\ probe.cases[i + 1] = 2 => i + 1 = Len(probe.cases)

\* A delete took cases 1, 3 and 4 in one pass of the loop: three rotations.
C37_Witness ==
    /\ probe.kind = "RB.delete" /\ probe.found
    /\ probe.rotations = 3 /\ probe.cases = <<0, 1, 3, 4>>

\* C35: every sibling w that RBTree._delete_fixup reads, at the start of a pass
\* of its loop and after the case-1 and case-3 rotations, is a real node and not
\* the sentinel; the delete leaves the sentinel BLACK and its children links as
\* they were.
C35_SiblingIsReal ==
    probe.kind = "RB.delete" /\ probe.found =>
        /\ \A i \in 1..Len(probe.siblings) : probe.siblings[i] \in Nodes
        /\ probe.sentinel_kept
        /\ Len(probe.siblings) >= Cardinality({i \in 1..Len(probe.cases) : probe.cases[i] = 0})

\* A fixup that started at the sentinel read a RED sibling, rotated, and read
\* the new sibling.
C35_Witness ==
    /\ probe.kind = "RB.delete" /\ probe.found /\ probe.fixup
    /\ probe.entered.x = nil
    /\ Len(probe.siblings) >= 2 /\ probe.cases[2] = 1

\* C39: when RBTree.delete enters _delete_fixup(x), x.parent is the node above
\* the place the removed node was taken from (the sentinel when that place is
\* the root) and that node's link to the place holds x, also when x is the
\* sentinel.
C39_FixupParentIsSlotOwner ==
    probe.kind = "RB.delete" /\ probe.found /\ probe.fixup =>
        /\ probe.entered.parent = probe.slot.above
        /\ probe.slot.holds = probe.entered.x
        /\ probe.entered.named = 1

\* The fixup was entered at the sentinel, under the successor that had been the
\* right child of the deleted node.
C39_Witness ==
    /\ probe.kind = "RB.delete" /\ probe.found /\ probe.fixup
    /\ probe.successor_direct /\ probe.entered.x = nil
    /\ probe.entered.parent \in Nodes

\* C34: a rotation primitive of AVLTree, RBTree or Treap, called on a node that
\* has the child to promote, keeps the in-order sequence of keys and the set of
\* nodes, puts the promoted node where the pivot was (same side of the pivot's
\* parent, or the root), makes the pivot its child with the displaced subtree on
\* the pivot's vacated side, sets the parent links of the three, and counts one
\* rotation.
C34_RotationFrame ==
    probe.kind = "rotation" =>
        /\ probe.inorder_kept /\ probe.nodes_kept
        /\ probe.reattached /\ probe.parents /\ probe.children /\ probe.others_kept
        /\ probe.counted = 1
        /\ ~lastOp.guard

\* AVLTree._rotate_right was called on a node that is not the root and whose
\* left child has a right subtree.
C34_Witness ==
    /\ probe.kind = "rotation" /\ engine = "AVL" /\ probe.dir = "right"
    /\ probe.displaced /\ ~probe.was_root

====
